---- MODULE Spec2Model ----
(***************************************************************************)
(* Cone-beam CT backprojection (Siddon's algorithm) with the OpenMP        *)
(* projection loop of backprojector.c.                                     *)
(*                                                                         *)
(* Arithmetic is exact.  Every alpha of one ray is a rational whose        *)
(* denominator divides RayScale(ray), the product of the ray's non-zero    *)
(* direction deltas, so an alpha is kept as the integer alpha*RayScale.    *)
(* IEEE results of a division by zero are kept as the values INF, -INF     *)
(* and NAN.  A voxel value is a formal sum: a function from a unit         *)
(* <<len2, scale, range>> to an integer c, standing for                    *)
(*     c * sqrt(len2) / (scale * range * (DOD + DOS)).                     *)
(* The model is the build without _DEBUG (the gcc line of readme.md):      *)
(* the asserts of the source are not executed.                             *)
(***************************************************************************)
EXTENDS Integers, Sequences, FiniteSets, TLC

\* ---------------------------------------------------------------- constants
\* backprojector.h, scaled down so that TLC's integers hold every product.
VOXEL_SIZE_X == 2
VOXEL_SIZE_Y == 2
VOXEL_SIZE_Z == 2
PIXEL_SIZE == 3
AP == 360
\* 45 degrees, the finest step whose sines and cosines the lattice form below
\* represents exactly.
STEP_ANGLE == 45
VOXEL_MATRIX_SIZE == 8
DOD == 12
DOS == 48

N_VOXELS_X == VOXEL_MATRIX_SIZE \div VOXEL_SIZE_X
N_VOXELS_Y == VOXEL_MATRIX_SIZE \div VOXEL_SIZE_Y
N_VOXELS_Z == VOXEL_MATRIX_SIZE \div VOXEL_SIZE_Z
N_PLANES_X == N_VOXELS_X + 1
N_PLANES_Y == N_VOXELS_Y + 1
N_PLANES_Z == N_VOXELS_Z + 1
N_THETA == (AP \div STEP_ANGLE) + 1

NONE == -1
X == 0
Y == 1
Z == 2
Axes == {X, Y, Z}

VOXEL_SIZE == [a \in Axes |-> IF a = X THEN VOXEL_SIZE_X ELSE IF a = Y THEN VOXEL_SIZE_Y ELSE VOXEL_SIZE_Z]
N_VOXELS == [a \in Axes |-> IF a = X THEN N_VOXELS_X ELSE IF a = Y THEN N_VOXELS_Y ELSE N_VOXELS_Z]
N_PLANES == [a \in Axes |-> IF a = X THEN N_PLANES_X ELSE IF a = Y THEN N_PLANES_Y ELSE N_PLANES_Z]

\* ------------------------------------------------------- IEEE special values
INF == 100000000
NAN == 200000000

IsFinite(v) == v > -INF /\ v < INF

\* fmin / fmax of math.h: a NaN argument is ignored.
Fmin(a, b) == IF a = NAN THEN b ELSE IF b = NAN THEN a ELSE IF a <= b THEN a ELSE b
Fmax(a, b) == IF a = NAN THEN b ELSE IF b = NAN THEN a ELSE IF a >= b THEN a ELSE b

Abs(n) == IF n < 0 THEN -n ELSE n
Sgn(n) == IF n < 0 THEN -1 ELSE IF n > 0 THEN 1 ELSE 0

\* floor() and ceil() of the quotient n/m, m > 0.
Floor(n, m) == n \div m
Ceil(n, m) == -((-n) \div m)
\* conversion of the quotient n/m (m > 0) to int: truncation towards zero.
ToInt(n, m) == IF n >= 0 THEN n \div m ELSE -((-n) \div m)

\* ------------------------------------------------------------------- tables
Point(x, y, z) == [a \in Axes |-> IF a = X THEN x ELSE IF a = Y THEN y ELSE z]

\* sinl / cosl of an angle in degrees, a multiple of 45.  At the odd multiples
\* the value is kept as the lattice value +-1, that is sqrt(2) times the sine:
\* such a projection is the exact one with DOS, DOD and the in-plane pixel
\* pitch scaled by sqrt(2); which planes a ray crosses, and in which order, is
\* that of the rotation by exactly that angle.
SinDeg(deg) ==
    LET r == deg % 360
    IN  IF r \in {0, 180} THEN 0 ELSE IF r \in {45, 90, 135} THEN 1 ELSE -1
CosDeg(deg) ==
    LET r == deg % 360
    IN  IF r \in {90, 270} THEN 0 ELSE IF r \in {0, 45, 315} THEN 1 ELSE -1

sinTable == [i \in 0..(N_THETA - 1) |-> SinDeg((AP \div 2) + i * STEP_ANGLE)]
cosTable == [i \in 0..(N_THETA - 1) |-> CosDeg((AP \div 2) + i * STEP_ANGLE)]
\* What the words beside sinTable and cosTable hold in this run: <<sin, cos>>.
VARIABLE beforeTables

\* sinTable[index] and cosTable[index] as the code reads them.  An index
\* outside 0 .. N_THETA - 1 reads the static storage beside the tables, whose
\* content `beside` is that of the run.
TableAt(table, index, beside) ==
    IF index \in DOMAIN table THEN table[index] ELSE beside

firstPlane == [a \in Axes |-> -((VOXEL_SIZE[a] * N_VOXELS[a]) \div 2)]
lastPlane == [a \in Axes |-> -firstPlane[a]]

\* ----------------------------------------------------------- ray generation
getSourcePosition(projectionIndex) ==
    Point(-TableAt(sinTable, projectionIndex, beforeTables[1]) * DOS,
          TableAt(cosTable, projectionIndex, beforeTables[2]) * DOS, 0)

getPixelPosition(projection, row, col) ==
    LET dFirstPixel == ((projection.nSidePixels * PIXEL_SIZE) \div 2) - (PIXEL_SIZE \div 2)
        sinAngle == TableAt(sinTable, projection.index, beforeTables[1])
        cosAngle == TableAt(cosTable, projection.index, beforeTables[2])
    IN  Point(DOD * sinAngle + cosAngle * (-dFirstPixel + col * PIXEL_SIZE),
              -DOD * cosAngle + sinAngle * (-dFirstPixel + col * PIXEL_SIZE),
              -dFirstPixel + row * PIXEL_SIZE)

Delta(ray, axis) == ray.pixel[axis] - ray.source[axis]

\* The common denominator of the alphas of a ray.
RayScale(ray) ==
    LET f(a) == IF Delta(ray, a) = 0 THEN 1 ELSE Abs(Delta(ray, a))
    IN  f(X) * f(Y) * f(Z)

\* num / d as an alpha of the ray: exact when d # 0, IEEE when d = 0.
AlphaDiv(ray, num, d) ==
    IF d = 0
    THEN IF num > 0 THEN INF ELSE IF num < 0 THEN -INF ELSE NAN
    ELSE num * Sgn(d) * (RayScale(ray) \div Abs(d))

getParallelAxis(ray) ==
    IF ray.source[X] = ray.pixel[X] THEN X
    ELSE IF ray.source[Y] = ray.pixel[Y] THEN Y
    ELSE IF ray.source[Z] = ray.pixel[Z] THEN Z
    ELSE NONE

getPlanePosition(axis, index) == firstPlane[axis] + index * VOXEL_SIZE[axis]

\* ---------------------------------------------------------- Siddon, (4)-(5)
\* intersections[axis] of the skipped axis is left unwritten by the code and
\* is never read by getAMin / getAMax; it is NAN here.
getSidesIntersections(ray, parallelTo) ==
    [axis \in Axes |->
        IF axis = parallelTo
        THEN <<NAN, NAN>>
        ELSE <<AlphaDiv(ray, firstPlane[axis] - ray.source[axis], Delta(ray, axis)),
               AlphaDiv(ray, lastPlane[axis] - ray.source[axis], Delta(ray, axis))>>]

RECURSIVE AMinLoop(_, _, _, _)
AMinLoop(ray, parallelTo, intersections, axis) ==
    IF axis < X THEN 0
    ELSE LET aMin == AMinLoop(ray, parallelTo, intersections, axis - 1)
         IN  IF axis = parallelTo THEN aMin
             ELSE Fmax(aMin, Fmin(intersections[axis][1], intersections[axis][2]))

getAMin(ray, parallelTo, intersections) == AMinLoop(ray, parallelTo, intersections, Z)

RECURSIVE AMaxLoop(_, _, _, _)
AMaxLoop(ray, parallelTo, intersections, axis) ==
    IF axis < X THEN RayScale(ray)
    ELSE LET aMax == AMaxLoop(ray, parallelTo, intersections, axis - 1)
         IN  IF axis = parallelTo THEN aMax
             ELSE Fmin(aMax, Fmax(intersections[axis][1], intersections[axis][2]))

getAMax(ray, parallelTo, intersections) == AMaxLoop(ray, parallelTo, intersections, Z)

\* ------------------------------------------------------------- Siddon, (6)
\* The ranges of the whole ray, from the source to the pixel: aMin and aMax
\* are not used.
getPlanesRangesWholeRay(ray, aMin, aMax) ==
    [axis \in Axes |->
        LET d == Delta(ray, axis)
            q == RayScale(ray)
            s == ray.source[axis]
            den == VOXEL_SIZE[axis] * q
        IN  IF d >= 0
            THEN [min |-> N_PLANES[axis] - Ceil(lastPlane[axis] * q - s * q, den),
                  max |-> Floor(s * q + q * d - firstPlane[axis] * q, den)]
            ELSE [min |-> N_PLANES[axis] - Ceil(lastPlane[axis] * q - q * d - s * q, den),
                  max |-> Floor(s * q - firstPlane[axis] * q, den)]]

getPlanesRanges(ray, aMin, aMax) ==
    [axis \in Axes |->
        LET d == Delta(ray, axis)
            q == RayScale(ray)
            s == ray.source[axis]
            den == VOXEL_SIZE[axis] * q
        IN  IF d >= 0
            THEN [min |-> N_PLANES[axis] - Ceil(lastPlane[axis] * q - aMin * d - s * q, den),
                  max |-> Floor(s * q + aMax * d - firstPlane[axis] * q, den)]
            ELSE [min |-> N_PLANES[axis] - Ceil(lastPlane[axis] * q - aMax * d - s * q, den),
                  max |-> Floor(s * q + aMin * d - firstPlane[axis] * q, den)]]

\* ------------------------------------------------------------- Siddon, (7)
\* a[axis][0] followed by the increments of the loop.
RECURSIVE AlphaRun(_, _, _)
AlphaRun(first, step, n) ==
    IF n <= 0 THEN <<>>
    ELSE IF n = 1 THEN <<first>>
    ELSE LET prev == AlphaRun(first, step, n - 1)
         IN  Append(prev, prev[n - 1] + step)

\* The same with the planes of a negative direction taken from maxIndex
\* upwards (the step added with its own sign).
getAllIntersectionsSameStep(ray, planesRanges) ==
    [axis \in Axes |->
        LET minIndex == planesRanges[axis].min
            maxIndex == planesRanges[axis].max
            d == Delta(ray, axis)
            size == IF maxIndex - minIndex > 0 THEN maxIndex - minIndex ELSE 0
        IN  IF minIndex >= maxIndex \/ d = 0 THEN [i \in 1..size |-> NAN]
            ELSE AlphaRun(AlphaDiv(ray, getPlanePosition(axis, IF d > 0 THEN minIndex ELSE maxIndex)
                                            - ray.source[axis], d),
                          AlphaDiv(ray, VOXEL_SIZE[axis], d), size)]

\* The array of an axis has fmax(0, max - min) elements (computeBackProjection);
\* elements the function does not write are uninitialised, NAN here.
getAllIntersections(ray, planesRanges) ==
    [axis \in Axes |->
        LET minIndex == planesRanges[axis].min
            maxIndex == planesRanges[axis].max
            d == Delta(ray, axis)
            size == IF maxIndex - minIndex > 0 THEN maxIndex - minIndex ELSE 0
        IN  IF minIndex >= maxIndex THEN [i \in 1..size |-> NAN]
            ELSE IF d > 0
            THEN AlphaRun(AlphaDiv(ray, getPlanePosition(axis, minIndex) - ray.source[axis], d),
                          AlphaDiv(ray, VOXEL_SIZE[axis], d), size)
            ELSE IF d < 0
            THEN AlphaRun(AlphaDiv(ray, getPlanePosition(axis, maxIndex) - ray.source[axis], d),
                          -AlphaDiv(ray, VOXEL_SIZE[axis], d), size)
            ELSE [i \in 1..size |-> NAN]]

\* ------------------------------------------------------------- Siddon, (8)
\* The seven loops of mergeIntersections; i, j, k count the elements taken.
\* A loop whose condition has become false stays false, so the loop that runs
\* is the first one in program order whose condition holds.
RECURSIVE MergeLoop(_, _, _, _, _, _, _)
MergeLoop(aX, aY, aZ, i, j, k, aMerged) ==
    LET hasX == i < Len(aX)
        hasY == j < Len(aY)
        hasZ == k < Len(aZ)
        x == aX[i + 1]
        y == aY[j + 1]
        z == aZ[k + 1]
    IN  IF hasX /\ hasY /\ hasZ
        THEN IF x <= y /\ x <= z THEN MergeLoop(aX, aY, aZ, i + 1, j, k, Append(aMerged, x))
             ELSE IF y <= x /\ y <= z THEN MergeLoop(aX, aY, aZ, i, j + 1, k, Append(aMerged, y))
             ELSE MergeLoop(aX, aY, aZ, i, j, k + 1, Append(aMerged, z))
        ELSE IF hasX /\ hasY
        THEN IF x <= y THEN MergeLoop(aX, aY, aZ, i + 1, j, k, Append(aMerged, x))
             ELSE MergeLoop(aX, aY, aZ, i, j + 1, k, Append(aMerged, y))
        ELSE IF hasY /\ hasZ
        THEN IF y <= z THEN MergeLoop(aX, aY, aZ, i, j + 1, k, Append(aMerged, y))
             ELSE MergeLoop(aX, aY, aZ, i, j, k + 1, Append(aMerged, z))
        ELSE IF hasX /\ hasZ
        THEN IF x <= z THEN MergeLoop(aX, aY, aZ, i + 1, j, k, Append(aMerged, x))
             ELSE MergeLoop(aX, aY, aZ, i, j, k + 1, Append(aMerged, z))
        ELSE IF hasX THEN MergeLoop(aX, aY, aZ, i + 1, j, k, Append(aMerged, x))
        ELSE IF hasY THEN MergeLoop(aX, aY, aZ, i, j + 1, k, Append(aMerged, y))
        ELSE IF hasZ THEN MergeLoop(aX, aY, aZ, i, j, k + 1, Append(aMerged, z))
        ELSE aMerged

mergeIntersections(aX, aY, aZ) == MergeLoop(aX, aY, aZ, 0, 0, 0, <<>>)

\* ---------------------------------------------------- Siddon, (10)-(14)
\* The linear index of a voxel; nVoxelsX and nVoxelsZ are the macros
\* N_VOXELS_X and N_VOXELS_Z of the build.
VoxelIndex(voxelX, voxelY, voxelZ, nVoxelsX, nVoxelsZ) ==
    voxelY * nVoxelsX * nVoxelsZ + voxelZ * nVoxelsZ + voxelX

\* The same with the pixel value used as it is, minVal not subtracted.
computeAbsorptionRaw(ray, a, projection, pixelIndex) ==
    LET q == RayScale(ray)
        dx == Delta(ray, X)
        dy == Delta(ray, Y)
        dz == Delta(ray, Z)
        len2 == dx * dx + dy * dy + dz * dz
        Voxel(axis, i) ==
            ToInt(ray.source[axis] * 2 * q + (a[i + 1] + a[i]) * Delta(ray, axis)
                      - firstPlane[axis] * 2 * q,
                  VOXEL_SIZE[axis] * 2 * q)
    IN  [i \in 1..(Len(a) - 1) |->
            LET voxelX == Voxel(X, i)
                voxelY == Voxel(Y, i)
                voxelZ == Voxel(Z, i)
            IN  [voxelX |-> voxelX, voxelY |-> voxelY, voxelZ |-> voxelZ,
                 voxelIndex |-> VoxelIndex(voxelX, voxelY, voxelZ, N_VOXELS_X, N_VOXELS_Z),
                 unit |-> <<len2, q, projection.maxVal - projection.minVal>>,
                 segment |-> a[i + 1] - a[i],
                 value |-> projection.pixels[pixelIndex + 1] * (a[i + 1] - a[i])]]

\* The deposits of one ray, in the order of the loop: for each pair of
\* consecutive alphas the voxel, its linear index and the value added.
computeAbsorption(ray, a, projection, pixelIndex) ==
    LET q == RayScale(ray)
        dx == Delta(ray, X)
        dy == Delta(ray, Y)
        dz == Delta(ray, Z)
        len2 == dx * dx + dy * dy + dz * dz
        Voxel(axis, i) ==
            ToInt(ray.source[axis] * 2 * q + (a[i + 1] + a[i]) * Delta(ray, axis)
                      - firstPlane[axis] * 2 * q,
                  VOXEL_SIZE[axis] * 2 * q)
    IN  [i \in 1..(Len(a) - 1) |->
            LET voxelX == Voxel(X, i)
                voxelY == Voxel(Y, i)
                voxelZ == Voxel(Z, i)
            IN  [voxelX |-> voxelX, voxelY |-> voxelY, voxelZ |-> voxelZ,
                 voxelIndex |-> VoxelIndex(voxelX, voxelY, voxelZ, N_VOXELS_X, N_VOXELS_Z),
                 unit |-> <<len2, q, projection.maxVal - projection.minVal>>,
                 segment |-> a[i + 1] - a[i],
                 value |-> (projection.pixels[pixelIndex + 1] - projection.minVal)
                               * (a[i + 1] - a[i])]]

\* ------------------------------------------------- computeBackProjection
\* The body of the pixel loop for one (row, col), up to the call of
\* computeAbsorption: everything the iteration computes.
RayOf(projection, row, col) ==
    [source |-> getSourcePosition(projection.index),
     pixel |-> getPixelPosition(projection, row, col)]

\* A ray is skipped only when the interval is empty, not when it is a point.
MissesStrictly(aMin, aMax) == aMin > aMax

\* "if (aMin >= aMax) continue;": the ray does not intersect the volume.
Misses(aMin, aMax) == aMin >= aMax

Traversal(ray) ==
    LET parallelTo == getParallelAxis(ray)
        intersections == getSidesIntersections(ray, parallelTo)
        aMin == getAMin(ray, parallelTo, intersections)
        aMax == getAMax(ray, parallelTo, intersections)
    IN  IF Misses(aMin, aMax)
        THEN [skipped |-> TRUE, parallelTo |-> parallelTo, aMin |-> aMin, aMax |-> aMax]
        ELSE LET planesRanges == getPlanesRanges(ray, aMin, aMax)
                 a == getAllIntersections(ray, planesRanges)
             IN  [skipped |-> FALSE, parallelTo |-> parallelTo, aMin |-> aMin, aMax |-> aMax,
                  planesRanges |-> planesRanges, a |-> a,
                  aMerged |-> mergeIntersections(a[X], a[Y], a[Z])]

PixelDeposits(projection, row, col) ==
    LET ray == RayOf(projection, row, col)
        t == Traversal(ray)
    IN  IF t.skipped THEN <<>>
        ELSE computeAbsorption(ray, t.aMerged, projection, row * projection.nSidePixels + col)

\* ------------------------------------------------------------ voxel values
\* f + c * unit, as a formal sum without zero coefficients.
AddTerm(f, unit, c) ==
    IF c = 0 THEN f
    ELSE IF unit \in DOMAIN f
    THEN IF f[unit] + c = 0
         THEN [u \in (DOMAIN f) \ {unit} |-> f[u]]
         ELSE [u \in DOMAIN f |-> IF u = unit THEN f[u] + c ELSE f[u]]
    ELSE [u \in (DOMAIN f) \cup {unit} |-> IF u = unit THEN c ELSE f[u]]

Zero == [u \in {} |-> 0]

N_COEFFICIENTS == N_VOXELS_X * N_VOXELS_Y * N_VOXELS_Z
VoxelIndices == 0..(N_COEFFICIENTS - 1)

\* calloc(N_VOXELS_X * N_VOXELS_Y * N_VOXELS_Z, sizeof(double))
ZeroVolume == [v \in VoxelIndices |-> Zero]

\* "=" in place of "+=".
Overwrite(coefficients, deposit) ==
    [coefficients EXCEPT ![deposit.voxelIndex] = AddTerm(Zero, deposit.unit, deposit.value)]

\* volume->coefficients[voxelIndex] += voxelAbsorptionValue, under
\* "#pragma omp atomic update": one indivisible read-modify-write.
AtomicUpdate(coefficients, deposit) ==
    [coefficients EXCEPT ![deposit.voxelIndex] = AddTerm(@, deposit.unit, deposit.value)]

\* ------------------------------------------------------------------ bounds
\* the threads of the team (OMP_NUM_THREADS)
NumThreads == 2
\* the largest nSidePixels of a projection backprojected on its own
MaxSide == 5
\* maxVal of the projections; pixel values are 0..MaxVal
MaxVal == 2
\* the largest number of voxels per axis of the grids of SpecGrid
MaxN == 3

Workers == 1..NumThreads

VARIABLES
    \* main(): the projection loop
    inputFile,             \* the content of the input file
    filePos,               \* ftell(inputFile), in units: 0, then 1 + records consumed
    header,                \* the shared width, height, minVal, maxVal of main()
    lock,                  \* the owner of the unnamed critical section, 0 when free
    nextIter,              \* the next iteration the dynamic schedule hands out
    pc,                    \* where each thread of the team is
    projection,            \* each thread's private projection
    read,                  \* each thread's private read
    row, col, seg,         \* each thread's position in computeBackProjection
    contributions,         \* what computeAbsorption stores for the thread's ray
    fileStores,            \* what the records of the input file contribute (fixed)
    volume,                \* volume.coefficients
    processedProjections,
    fault,                 \* "none", or "damaged" after a store outside the array
    phase,                 \* "loop", "joined" after the loop, or how the process died
    current,               \* the file record each thread's projection was read from
    finished,              \* the file records whose backprojection has returned
    \* computeBackProjection() of one projection, on its own
    cbProjection, cbRow, cbCol, cbStage, cbTrace, cbSeg, cbVolume, cbFault,
    \* main(): the write phase and the end of the process
    done,                  \* the shared done of main()
    wpc,                   \* where each thread of the write phase's team is
    loadingBarIndex,
    written,               \* whether the writer has returned, and what it put into the file
    freed,                 \* free(volume.coefficients) has been called
    diagnostic,            \* the last message on stderr that reports an outcome
    \* the voxel index of a grid of any size
    gridSize, gridVoxel, gridSeen,
    \* the traversal of one ray between any two points, then of its mirror image
    lnRay, lnStage, lnTrace, lnSeg, lnVolume, lnFault, lnMirror, lnFirst,
    \* mergeIntersections() on any three sorted arrays
    mgX, mgY, mgZ,         \* aX, aY, aZ; their lengths are aXSize, aYSize, aZSize
    mgI, mgJ, mgK,         \* i, j, k; l is the length of mgMerged
    mgMerged,              \* aMerged[0 .. l - 1]
    mgLoop,                \* the while loop the function is at, 1 .. 7; 8 when it has returned
    mgOutside              \* an element at or beyond the size of its array has been read

writeVars == <<done, wpc, loadingBarIndex, written, freed, diagnostic>>
mainVars == <<inputFile, filePos, header, lock, nextIter, pc, projection, read,
              row, col, seg, contributions, volume, processedProjections, fault, phase, current, finished,
              fileStores, beforeTables, writeVars>>
cbVars == <<cbProjection, cbRow, cbCol, cbStage, cbTrace, cbSeg, cbVolume, cbFault>>
gridVars == <<gridSize, gridVoxel, gridSeen>>
lineVars == <<lnRay, lnStage, lnTrace, lnSeg, lnVolume, lnFault, lnMirror, lnFirst>>
mergeVars == <<mgX, mgY, mgZ, mgI, mgJ, mgK, mgMerged, mgLoop, mgOutside>>
vars == <<mainVars, cbVars, gridVars, lineVars, mergeVars>>

\* A store to volume->coefficients[voxelIndex] lands in the array.
InArray(voxelIndex) == voxelIndex \in VoxelIndices

\* ---------------------------------- computeBackProjection of one projection
Pixels(nSidePixels, seed) ==
    [j \in 1..(nSidePixels * nSidePixels) |-> (seed + j) % (MaxVal + 1)]

CbProjections ==
    { [index |-> index, nSidePixels |-> n, minVal |-> 0, maxVal |-> MaxVal,
       pixels |-> Pixels(n, seed)] :
      index \in 0..(N_THETA - 1), n \in 1..MaxSide, seed \in 0..MaxVal }

NoTrace == [skipped |-> TRUE, parallelTo |-> NONE, aMin |-> 0, aMax |-> 0]

CbIdle ==
    /\ cbProjection = [index |-> 0, nSidePixels |-> 0, minVal |-> 0, maxVal |-> 1, pixels |-> <<>>]
    /\ cbRow = 0 /\ cbCol = 0 /\ cbStage = "end" /\ cbTrace = NoTrace /\ cbSeg = 0
    /\ cbVolume = ZeroVolume /\ cbFault = "none"

CbInit ==
    /\ cbProjection \in CbProjections
    /\ cbRow = 0 /\ cbCol = 0 /\ cbStage = "ray" /\ cbTrace = NoTrace /\ cbSeg = 0
    /\ cbVolume = ZeroVolume /\ cbFault = "none"

CbRay == RayOf(cbProjection, cbRow, cbCol)

\* col++, and row++ with col = 0 at the end of a row; "end" after the last pixel.
CbAdvance ==
    IF cbCol + 1 < cbProjection.nSidePixels
    THEN cbRow' = cbRow /\ cbCol' = cbCol + 1 /\ cbStage' = "ray"
    ELSE IF cbRow + 1 < cbProjection.nSidePixels
    THEN cbRow' = cbRow + 1 /\ cbCol' = 0 /\ cbStage' = "ray"
    ELSE cbRow' = cbRow /\ cbCol' = cbCol /\ cbStage' = "end"

\* The loop body up to the call of computeAbsorption; "continue" when the ray
\* misses the volume.
CbTraceRay ==
    /\ cbStage = "ray"
    /\ cbTrace' = Traversal(CbRay)
    /\ cbSeg' = 1
    /\ IF cbTrace'.skipped
       THEN CbAdvance
       ELSE cbRow' = cbRow /\ cbCol' = cbCol /\ cbStage' = "absorb"
    /\ UNCHANGED <<mainVars, gridVars, lineVars, mergeVars>>
    /\ UNCHANGED <<cbProjection, cbVolume, cbFault>>

CbDeposits ==
    computeAbsorption(CbRay, cbTrace.aMerged, cbProjection,
                      cbRow * cbProjection.nSidePixels + cbCol)

\* One iteration of the loop of computeAbsorption.  A store outside the array
\* is undefined: it damages the heap unseen, or the process dies of it.
CbAbsorb ==
    /\ cbStage = "absorb"
    /\ cbSeg < Len(cbTrace.aMerged)
    /\ LET deposit == CbDeposits[cbSeg]
       IN  IF InArray(deposit.voxelIndex)
           THEN /\ cbVolume' = AtomicUpdate(cbVolume, deposit)
                /\ cbSeg' = cbSeg + 1
                /\ UNCHANGED <<cbStage, cbFault>>
           ELSE \/ /\ cbFault' = "damaged"
                   /\ cbSeg' = cbSeg + 1
                   /\ UNCHANGED <<cbStage, cbVolume>>
                \/ /\ cbFault' = "crashed"
                   /\ cbStage' = "end"
                   /\ UNCHANGED <<cbSeg, cbVolume>>
    /\ UNCHANGED <<mainVars, gridVars, lineVars, mergeVars>>
    /\ UNCHANGED <<cbProjection, cbRow, cbCol, cbTrace>>

\* computeAbsorption returns; the pixel loop goes on.
CbReturn ==
    /\ cbStage = "absorb"
    /\ cbSeg >= Len(cbTrace.aMerged)
    /\ CbAdvance
    /\ UNCHANGED <<mainVars, gridVars, lineVars, mergeVars>>
    /\ UNCHANGED <<cbProjection, cbTrace, cbSeg, cbVolume, cbFault>>

\* ---------------------------------------------- the voxel index of any grid
GridIdle == gridSize = <<1, 1, 1>> /\ gridVoxel = <<1, 1, 1>> /\ gridSeen = {}

GridInit ==
    /\ gridSize \in (1..MaxN) \X (1..MaxN) \X (1..MaxN)
    /\ gridVoxel = <<0, 0, 0>>
    /\ gridSeen = {}

\* The index of one more voxel of the grid is computed; the voxels are taken
\* x first, then y, then z.  gridVoxel[3] = nVoxelsZ after the last voxel.
GridVisit ==
    /\ gridVoxel[3] < gridSize[3]
    /\ gridSeen' = gridSeen \cup
           {<<VoxelIndex(gridVoxel[1], gridVoxel[2], gridVoxel[3], gridSize[1], gridSize[3]),
              gridVoxel>>}
    /\ gridVoxel' = IF gridVoxel[1] + 1 < gridSize[1]
                    THEN <<gridVoxel[1] + 1, gridVoxel[2], gridVoxel[3]>>
                    ELSE IF gridVoxel[2] + 1 < gridSize[2]
                    THEN <<0, gridVoxel[2] + 1, gridVoxel[3]>>
                    ELSE <<0, 0, gridVoxel[3] + 1>>
    /\ UNCHANGED <<mainVars, cbVars, lineVars, mergeVars>>
    /\ UNCHANGED gridSize

\* ------------------------------------------------ the traversal of any ray
\* the largest coordinate of the end points of such a ray
MaxCoord == 5
LineCoords == {-MaxCoord, -1, 0, 1, MaxCoord}

\* The rays: a source below or beside the volume, a pixel anywhere else.
LineRays ==
    { [source |-> Point(sx, sy, sz), pixel |-> Point(px, py, pz)] :
        sx \in LineCoords, sy \in LineCoords, sz \in {-MaxCoord, 0},
        px \in LineCoords, py \in LineCoords, pz \in LineCoords } \
    { [source |-> Point(x, y, z), pixel |-> Point(x, y, z)] :
        x \in LineCoords, y \in LineCoords, z \in LineCoords }

\* The projection the ray's pixel belongs to: one pixel, of the value maxVal.
LineProjection ==
    [index |-> 0, nSidePixels |-> 1, minVal |-> 0, maxVal |-> MaxVal, pixels |-> <<MaxVal>>]

\* The image of the ray in the plane x = 0.
Mirror(ray) ==
    [source |-> Point(-ray.source[X], ray.source[Y], ray.source[Z]),
     pixel |-> Point(-ray.pixel[X], ray.pixel[Y], ray.pixel[Z])]

LineIdle ==
    /\ lnRay = [source |-> Point(0, 0, 0), pixel |-> Point(0, 0, 0)]
    /\ lnStage = "end" /\ lnTrace = NoTrace /\ lnSeg = 0
    /\ lnVolume = ZeroVolume /\ lnFault = "none" /\ lnMirror = FALSE /\ lnFirst = ZeroVolume

LineInit ==
    /\ lnRay \in LineRays
    /\ lnStage = "ray" /\ lnTrace = NoTrace /\ lnSeg = 0
    /\ lnVolume = ZeroVolume /\ lnFault = "none" /\ lnMirror = FALSE /\ lnFirst = ZeroVolume

\* The ray is done: its mirror image is traversed next, into a zeroed volume,
\* and nothing after the mirror image.
LnNext ==
    IF lnMirror
    THEN lnStage' = "end" /\ UNCHANGED <<lnRay, lnVolume, lnMirror, lnFirst>>
    ELSE /\ lnStage' = "ray"
         /\ lnRay' = Mirror(lnRay)
         /\ lnMirror' = TRUE
         /\ lnFirst' = lnVolume
         /\ lnVolume' = ZeroVolume

\* The body of the pixel loop for the ray, up to the call of computeAbsorption.
LnTraceRay ==
    /\ lnStage = "ray"
    /\ lnTrace' = Traversal(lnRay)
    /\ lnSeg' = 1
    /\ IF lnTrace'.skipped
       THEN LnNext
       ELSE lnStage' = "absorb" /\ UNCHANGED <<lnRay, lnVolume, lnMirror, lnFirst>>
    /\ UNCHANGED <<mainVars, cbVars, gridVars, mergeVars>>
    /\ UNCHANGED lnFault

LnDeposits == computeAbsorption(lnRay, lnTrace.aMerged, LineProjection, 0)

\* One iteration of the loop of computeAbsorption.
LnAbsorb ==
    /\ lnStage = "absorb"
    /\ lnSeg < Len(lnTrace.aMerged)
    /\ LET deposit == LnDeposits[lnSeg]
       IN  IF InArray(deposit.voxelIndex)
           THEN /\ lnVolume' = AtomicUpdate(lnVolume, deposit)
                /\ lnSeg' = lnSeg + 1
                /\ UNCHANGED <<lnStage, lnFault>>
           ELSE \/ /\ lnFault' = "damaged"
                   /\ lnSeg' = lnSeg + 1
                   /\ UNCHANGED <<lnStage, lnVolume>>
                \/ /\ lnFault' = "crashed"
                   /\ lnStage' = "end"
                   /\ UNCHANGED <<lnSeg, lnVolume>>
    /\ UNCHANGED <<mainVars, cbVars, gridVars, mergeVars>>
    /\ UNCHANGED <<lnRay, lnTrace, lnMirror, lnFirst>>

\* computeAbsorption returns.
LnReturn ==
    /\ lnStage = "absorb"
    /\ lnSeg >= Len(lnTrace.aMerged)
    /\ LnNext
    /\ UNCHANGED <<mainVars, cbVars, gridVars, mergeVars>>
    /\ UNCHANGED <<lnTrace, lnSeg, lnFault>>

\* ------------------------------------- mergeIntersections of any arrays
\* the largest size of an array handed to mergeIntersections
MaxLen == 2
\* the values of the elements
MergeValues == {1, 2, 3}

\* The sorted arrays of at most MaxLen elements.
SortedArrays ==
    UNION { {a \in [1..n -> MergeValues] : \A m \in 2..n : a[m - 1] <= a[m]} : n \in 0..MaxLen }

MergeIdle ==
    /\ mgX = <<>> /\ mgY = <<>> /\ mgZ = <<>>
    /\ mgI = 0 /\ mgJ = 0 /\ mgK = 0 /\ mgMerged = <<>> /\ mgLoop = 8 /\ mgOutside = FALSE

MergeInit ==
    /\ mgX \in SortedArrays /\ mgY \in SortedArrays /\ mgZ \in SortedArrays
    /\ mgI = 0 /\ mgJ = 0 /\ mgK = 0 /\ mgMerged = <<>> /\ mgLoop = 1 /\ mgOutside = FALSE

\* The test of an index with "<=" in place of "<".
WithinOrAt(n, size) == n <= size

\* "i < aXSize", "j < aYSize", "k < aZSize".
Within(n, size) == n < size

MoreX == Within(mgI, Len(mgX))
MoreY == Within(mgJ, Len(mgY))
MoreZ == Within(mgK, Len(mgZ))

\* The condition of each of the seven while loops.
LoopCondition(loop) ==
    IF loop = 1 THEN MoreX /\ MoreY /\ MoreZ
    ELSE IF loop = 2 THEN MoreX /\ MoreY
    ELSE IF loop = 3 THEN MoreY /\ MoreZ
    ELSE IF loop = 4 THEN MoreX /\ MoreZ
    ELSE IF loop = 5 THEN MoreX
    ELSE IF loop = 6 THEN MoreY
    ELSE MoreZ

\* What a read of a[n] gives: the element, or any value when n is not an
\* index of the array.
ReadsOf(a, n) == IF n < Len(a) THEN {a[n + 1]} ELSE MergeValues

\* "aMerged[l++] = aX[i++]", and the same for aY and aZ; `outside` tells
\* whether the iteration has read beyond an array.
TakeX(x, outside) ==
    /\ mgMerged' = Append(mgMerged, x) /\ mgI' = mgI + 1 /\ UNCHANGED <<mgJ, mgK>>
    /\ mgOutside' = (mgOutside \/ outside)
TakeY(y, outside) ==
    /\ mgMerged' = Append(mgMerged, y) /\ mgJ' = mgJ + 1 /\ UNCHANGED <<mgI, mgK>>
    /\ mgOutside' = (mgOutside \/ outside)
TakeZ(z, outside) ==
    /\ mgMerged' = Append(mgMerged, z) /\ mgK' = mgK + 1 /\ UNCHANGED <<mgI, mgJ>>
    /\ mgOutside' = (mgOutside \/ outside)

\* One iteration of the first loop, the three-way comparison.
MgThree ==
    /\ mgLoop = 1 /\ LoopCondition(1)
    /\ \E x \in ReadsOf(mgX, mgI), y \in ReadsOf(mgY, mgJ), z \in ReadsOf(mgZ, mgK) :
          LET outside == mgI >= Len(mgX) \/ mgJ >= Len(mgY) \/ mgK >= Len(mgZ)
          IN  IF x <= y /\ x <= z THEN TakeX(x, outside)
              ELSE IF y <= x /\ y <= z THEN TakeY(y, outside)
              ELSE TakeZ(z, outside)
    /\ UNCHANGED <<mainVars, cbVars, gridVars, lineVars>>
    /\ UNCHANGED <<mgX, mgY, mgZ, mgLoop>>

\* One iteration of the second, third or fourth loop, the comparison of two
\* arrays.
MgTwo ==
    /\ mgLoop \in 2..4 /\ LoopCondition(mgLoop)
    /\ \E x \in ReadsOf(mgX, mgI), y \in ReadsOf(mgY, mgJ), z \in ReadsOf(mgZ, mgK) :
          IF mgLoop = 2
          THEN LET outside == mgI >= Len(mgX) \/ mgJ >= Len(mgY)
               IN  IF x <= y THEN TakeX(x, outside) ELSE TakeY(y, outside)
          ELSE IF mgLoop = 3
          THEN LET outside == mgJ >= Len(mgY) \/ mgK >= Len(mgZ)
               IN  IF y <= z THEN TakeY(y, outside) ELSE TakeZ(z, outside)
          ELSE LET outside == mgI >= Len(mgX) \/ mgK >= Len(mgZ)
               IN  IF x <= z THEN TakeX(x, outside) ELSE TakeZ(z, outside)
    /\ UNCHANGED <<mainVars, cbVars, gridVars, lineVars>>
    /\ UNCHANGED <<mgX, mgY, mgZ, mgLoop>>

\* One iteration of the fifth, sixth or seventh loop, the rest of one array.
MgOne ==
    /\ mgLoop \in 5..7 /\ LoopCondition(mgLoop)
    /\ IF mgLoop = 5 THEN \E x \in ReadsOf(mgX, mgI) : TakeX(x, mgI >= Len(mgX))
       ELSE IF mgLoop = 6 THEN \E y \in ReadsOf(mgY, mgJ) : TakeY(y, mgJ >= Len(mgY))
       ELSE \E z \in ReadsOf(mgZ, mgK) : TakeZ(z, mgK >= Len(mgZ))
    /\ UNCHANGED <<mainVars, cbVars, gridVars, lineVars>>
    /\ UNCHANGED <<mgX, mgY, mgZ, mgLoop>>

\* The condition of the loop is false: the next loop, or the return after the
\* seventh.
MgLeave ==
    /\ mgLoop \in 1..7 /\ ~LoopCondition(mgLoop)
    /\ mgLoop' = mgLoop + 1
    /\ UNCHANGED <<mainVars, cbVars, gridVars, lineVars>>
    /\ UNCHANGED <<mgX, mgY, mgZ, mgI, mgJ, mgK, mgMerged, mgOutside>>

\* ------------------------------------------------------------ the input file
\* A file is its header fields and its records; a record is an angle in
\* degrees and the pixel values that follow it.  The last record may end
\* early (end of file inside the pixels).  headerOk is FALSE when the file
\* ends inside the header, partial is TRUE when it ends there after some
\* header field.
Angles(n) == [r \in 1..n |-> ((AP \div 2) + (r - 1) * STEP_ANGLE) % 360]

File(ext, magic, nProjections, width, minVal, maxVal, nRecords, missing, seed) ==
    [ext |-> ext, headerOk |-> TRUE, partial |-> FALSE, magic |-> magic, nProjections |-> nProjections,
     width |-> width, height |-> width * nProjections,
     minVal |-> minVal, maxVal |-> maxVal,
     records |-> [r \in 1..nRecords |->
                     [angle |-> Angles(nRecords)[r],
                      pixels |-> [j \in 1..(IF r = nRecords THEN width * width - missing
                                                            ELSE width * width) |->
                                     (seed + r + j) % (MaxVal + 1)]]]]

EmptyFile(ext) ==
    [ext |-> ext, headerOk |-> FALSE, partial |-> FALSE, magic |-> "", nProjections |-> 0,
     width |-> 0, height |-> 0, minVal |-> 0, maxVal |-> 0, records |-> <<>>]

\* A DAT file that ends after its first header field, the projection count.
PartialFile(nProjections) ==
    [EmptyFile("dat") EXCEPT !.partial = TRUE, !.nProjections = nProjections]

\* The file with the angles of its records replaced.
WithAngles(file, angles) ==
    [file EXCEPT !.records =
        [r \in DOMAIN file.records |-> [file.records[r] EXCEPT !.angle = angles[r]]]]

\* A complete file; a file with fewer records than its header says and with
\* pixel values below minVal; a file that ends inside a record; a PGM file
\* that ends after three projections; a file whose projection count is not
\* N_THETA; a PGM file with another magic number; an empty file; a file that
\* ends after a projection count that is not N_THETA; a file with angles
\* above 360 and below -360 degrees.
InputFiles ==
    {File("dat", "", N_THETA, 1, 0, MaxVal, N_THETA, 0, 0),
     File("dat", "", N_THETA, 1, 1, MaxVal, 3, 0, 0),
     File("dat", "", N_THETA, 2, 0, MaxVal, 2, 1, 0),
     File("pgm", "P2", N_THETA, 2, 0, MaxVal, 3, 0, 0),
     File("dat", "", N_THETA - 1, 1, 0, MaxVal, N_THETA - 1, 0, 0),
     File("pgm", "P5", N_THETA, 1, 0, MaxVal, N_THETA, 0, 0),
     EmptyFile("dat"),
     PartialFile(N_THETA - 1),
     WithAngles(File("dat", "", N_THETA, 1, 0, MaxVal, 2, 0, 0), <<405, -600>>)}

\* The file with every pixel replaced by minVal.
Blank(file) ==
    [file EXCEPT !.records =
        [r \in DOMAIN file.records |->
            [angle |-> file.records[r].angle,
             pixels |-> [j \in DOMAIN file.records[r].pixels |-> file.minVal]]]]

\* A complete file of pixels that all equal minVal, and a file in which some
\* pixels do.
BlankFiles ==
    {Blank(File("dat", "", N_THETA, 1, 1, MaxVal, N_THETA, 0, 0)),
     File("dat", "", N_THETA, 1, 1, MaxVal, 3, 0, 0)}

\* ------------------------------------------------------------------ main()
\* The index without the half turn that the first table entry starts from.
IndexOfAngleUnshifted(angle) ==
    LET shifted == angle + 360
        normalized == IF shifted >= 0 THEN shifted % 360 ELSE -((-shifted) % 360)
        scaled == ToInt(normalized * N_THETA, 360)
    IN  IF scaled >= 0 THEN scaled % N_THETA ELSE -((-scaled) % N_THETA)

\* fmod(angle + 360, 360), then (int)((angle + 180) / 360 * N_THETA) % N_THETA;
\* fmod and % take the sign of the dividend.
IndexOfAngle(angle) ==
    LET shifted == angle + 360
        normalized == IF shifted >= 0 THEN shifted % 360 ELSE -((-shifted) % 360)
        scaled == ToInt((normalized + 180) * N_THETA, 360)
    IN  IF scaled >= 0 THEN scaled % N_THETA ELSE -((-scaled) % N_THETA)

\* The header fields as readProjectionDAT / readProjectionPGM store them.
HeaderOf(file) ==
    [width |-> file.width,
     height |-> IF file.ext = "dat" THEN file.width * file.nProjections ELSE file.height,
     minVal |-> IF file.ext = "dat" THEN file.minVal ELSE 0,
     maxVal |-> file.maxVal]

\* The number of projections the reader compares with N_THETA.
CountOf(file) ==
    IF file.ext = "dat" THEN file.nProjections ELSE file.height \div file.width

\* Every contribution computeBackProjection computes for a projection, in
\* program order, each with the pixel and the segment it comes from.
RECURSIVE StoresFrom(_, _)
StoresFrom(proj, p) ==
    IF p >= proj.nSidePixels * proj.nSidePixels THEN <<>>
    ELSE LET deposits == PixelDeposits(proj, p \div proj.nSidePixels, p % proj.nSidePixels)
         IN  [i \in DOMAIN deposits |-> [pixel |-> p, seg |-> i, deposit |-> deposits[i]]]
                 \o StoresFrom(proj, p + 1)

\* The projection a record r of the file stands for.
StructOf(file, r) ==
    [index |-> IndexOfAngle(file.records[r].angle),
     nSidePixels |-> HeaderOf(file).width,
     minVal |-> HeaderOf(file).minVal, maxVal |-> HeaderOf(file).maxVal,
     pixels |-> file.records[r].pixels]

Complete(file, r) == Len(file.records[r].pixels) >= file.width * file.width

\* The contributions of the records 1..r of a file, record by record; an
\* incomplete record has none.
RECURSIVE RecordStores(_, _)
RecordStores(file, r) ==
    IF r = 0 THEN <<>>
    ELSE Append(RecordStores(file, r - 1),
                IF Complete(file, r) THEN StoresFrom(StructOf(file, r), 0) ELSE <<>>)

\* "#pragma omp parallel num_threads(2)" of the write phase.
WriteTeam == 1..2

\* The writer has not been called: nothing is in the output file.
NotWritten == [returned |-> FALSE, complete |-> FALSE, coefficients |-> <<>>]

\* Some record of the file has an angle whose index is outside the tables.
ReadsBesideTables(file) ==
    \E r \in DOMAIN file.records : IndexOfAngle(file.records[r].angle) \notin 0..(N_THETA - 1)

\* What the storage beside the tables may hold: zeros, or the sine and cosine
\* of 90 degrees.
BesideTables == {<<0, 0>>, <<1, 0>>}

Uninitialized == [index |-> NONE, nSidePixels |-> 0, minVal |-> 0, maxVal |-> 0, pixels |-> <<>>]
NoHeader == [width |-> 0, height |-> 0, minVal |-> 0, maxVal |-> 0]

Idle ==
    /\ inputFile = EmptyFile("dat") /\ fileStores = <<>> /\ filePos = 0 /\ header = NoHeader /\ lock = 0
    /\ nextIter = N_THETA
    /\ pc = [w \in Workers |-> "done"]
    /\ projection = [w \in Workers |-> Uninitialized]
    /\ read = [w \in Workers |-> FALSE]
    /\ row = [w \in Workers |-> 0] /\ col = [w \in Workers |-> 0] /\ seg = [w \in Workers |-> 0]
    /\ contributions = [w \in Workers |-> <<>>]
    /\ volume = ZeroVolume /\ processedProjections = 0 /\ fault = "none"
    /\ phase = "joined"
    /\ current = [w \in Workers |-> 0] /\ finished = {}
    /\ beforeTables = <<0, 0>>
    /\ done = FALSE /\ wpc = [t \in WriteTeam |-> "idle"] /\ loadingBarIndex = 0
    /\ written = NotWritten /\ freed = FALSE /\ diagnostic = ""

\* main() up to the parallel loop: files open, volume allocated and zeroed,
\* tables filled, the team about to take its first iterations.
MainInitOn(files) ==
    /\ inputFile \in files
    /\ beforeTables \in (IF ReadsBesideTables(inputFile) THEN BesideTables ELSE {<<0, 0>>})
    /\ fileStores = RecordStores(inputFile, Len(inputFile.records))
    /\ filePos = 0 /\ header = NoHeader /\ lock = 0
    /\ nextIter = 0
    /\ pc = [w \in Workers |-> "idle"]
    /\ projection = [w \in Workers |-> Uninitialized]
    /\ read = [w \in Workers |-> FALSE]
    /\ row = [w \in Workers |-> 0] /\ col = [w \in Workers |-> 0] /\ seg = [w \in Workers |-> 0]
    /\ contributions = [w \in Workers |-> <<>>]
    /\ volume = ZeroVolume /\ processedProjections = 0 /\ fault = "none"
    /\ phase = "loop"
    /\ current = [w \in Workers |-> 0] /\ finished = {}
    /\ done = FALSE /\ wpc = [t \in WriteTeam |-> "idle"] /\ loadingBarIndex = 0
    /\ written = NotWritten /\ freed = FALSE /\ diagnostic = ""

MainInit == MainInitOn(InputFiles)

\* A schedule that hands out the iterations two at a time to a thread that
\* runs one of them.
ScheduleSkipping(w) ==
    /\ phase = "loop" /\ pc[w] = "idle"
    /\ IF nextIter < N_THETA
       THEN nextIter' = nextIter + 2 /\ pc' = [pc EXCEPT ![w] = "critical"]
       ELSE nextIter' = nextIter /\ pc' = [pc EXCEPT ![w] = "done"]
    /\ UNCHANGED <<cbVars, gridVars, lineVars, mergeVars, beforeTables, writeVars>>
    /\ UNCHANGED <<inputFile, fileStores, filePos, header, lock, projection, read, row, col, seg,
                   contributions, volume, processedProjections, fault, phase, current, finished>>

\* schedule(dynamic): a free thread takes the next iteration, or waits at the
\* barrier of the loop when none is left.
Schedule(w) ==
    /\ phase = "loop" /\ pc[w] = "idle"
    /\ IF nextIter < N_THETA
       THEN nextIter' = nextIter + 1 /\ pc' = [pc EXCEPT ![w] = "critical"]
       ELSE nextIter' = nextIter /\ pc' = [pc EXCEPT ![w] = "done"]
    /\ UNCHANGED <<cbVars, gridVars, lineVars, mergeVars, beforeTables, writeVars>>
    /\ UNCHANGED <<inputFile, fileStores, filePos, header, lock, projection, read, row, col, seg,
                   contributions, volume, processedProjections, fault, phase, current, finished>>

\* A critical section that lets every thread in.
AlwaysFree == TRUE

\* "#pragma omp critical": entry waits until no thread is inside.
CriticalFree == lock = 0

EnterCritical(w) ==
    /\ phase = "loop" /\ pc[w] = "critical"
    /\ CriticalFree
    /\ lock' = w
    /\ pc' = [pc EXCEPT ![w] = "header"]
    /\ UNCHANGED <<cbVars, gridVars, lineVars, mergeVars, beforeTables, writeVars>>
    /\ UNCHANGED <<inputFile, fileStores, filePos, header, nextIter, projection, read, row, col, seg,
                   contributions, volume, processedProjections, fault, phase, current, finished>>

\* The reader, "if (ftell(file) == 0) { ... }": the header is read and checked
\* on the first call only.
ReadHeader(w) ==
    /\ phase = "loop" /\ pc[w] = "header"
    /\ IF filePos # 0
       THEN /\ pc' = [pc EXCEPT ![w] = "body"]
            /\ UNCHANGED <<filePos, header, lock, read, phase, diagnostic>>
       ELSE IF ~inputFile.headerOk
       THEN \* return false before any check of the fields; the critical
            \* section ends.  The fields read have moved the stream position.
            /\ read' = [read EXCEPT ![w] = FALSE]
            /\ lock' = IF lock = w THEN 0 ELSE lock
            /\ pc' = [pc EXCEPT ![w] = "check"]
            /\ filePos' = IF inputFile.partial THEN 1 ELSE 0
            /\ UNCHANGED <<header, phase, diagnostic>>
       ELSE /\ header' = HeaderOf(inputFile)
            /\ filePos' = 1
            /\ IF inputFile.ext = "pgm" /\ inputFile.magic # "P2"
               THEN /\ diagnostic' = "Unsupported PGM format"
                    /\ phase' = "exit failure" /\ pc' = pc
               ELSE IF CountOf(inputFile) # N_THETA
               THEN /\ diagnostic' = "Number of projections in the file doesn't match"
                    /\ phase' = "exit failure" /\ pc' = pc
               ELSE phase' = phase /\ pc' = [pc EXCEPT ![w] = "body"] /\ diagnostic' = diagnostic
            /\ UNCHANGED <<lock, read>>
    /\ UNCHANGED <<cbVars, gridVars, lineVars, mergeVars, beforeTables>>
    /\ UNCHANGED <<done, wpc, loadingBarIndex, written, freed>>
    /\ UNCHANGED <<inputFile, fileStores, nextIter, projection, row, col, seg, contributions,
                   volume, processedProjections, fault, current, finished>>

\* The reader from "Initialize the projection struct" to its return, and the
\* end of the critical section.  filePos - 1 records have been consumed.
ReadBody(w) ==
    /\ phase = "loop" /\ pc[w] = "body"
    /\ LET nSidePixels == header.width
           struct == [index |-> NONE, nSidePixels |-> nSidePixels,
                      minVal |-> header.minVal, maxVal |-> header.maxVal, pixels |-> <<>>]
           Malloc == \* malloc((*width) * (*width) * sizeof(double)) of a width
                     \* never read from the file: it fails, or it returns
                     \/ /\ header = NoHeader
                        /\ diagnostic' = "Error allocating memory for the projection"
                        /\ phase' = "exit failure"
                     \/ diagnostic' = diagnostic /\ phase' = phase
       IN  IF filePos > Len(inputFile.records)
           THEN \* no angle left: return false
                /\ projection' = [projection EXCEPT ![w] = struct]
                /\ read' = [read EXCEPT ![w] = FALSE]
                /\ current' = [current EXCEPT ![w] = 0]
                /\ filePos' = filePos
                /\ Malloc
           ELSE LET record == inputFile.records[filePos]
                IN  /\ projection' = [projection EXCEPT ![w] =
                            [struct EXCEPT !.index = IndexOfAngle(record.angle),
                                           !.pixels = record.pixels]]
                    /\ read' = [read EXCEPT ![w] = Len(record.pixels) >= nSidePixels * nSidePixels]
                    /\ current' = [current EXCEPT ![w] = filePos]
                    /\ filePos' = filePos + 1
                    /\ UNCHANGED <<diagnostic, phase>>
    /\ lock' = IF lock = w THEN 0 ELSE lock
    /\ pc' = [pc EXCEPT ![w] = "check"]
    /\ UNCHANGED <<cbVars, gridVars, lineVars, mergeVars, beforeTables>>
    /\ UNCHANGED <<done, wpc, loadingBarIndex, written, freed>>
    /\ UNCHANGED <<inputFile, fileStores, header, nextIter, row, col, seg, contributions,
                   volume, processedProjections, fault, finished>>

\* The first ray at or after pixel p (p = row * nSidePixels + col) for which
\* computeAbsorption has something to store, with what it stores; pixel =
\* nSidePixels^2 when the loops of computeBackProjection end before.
RECURSIVE Pending(_, _)
Pending(proj, p) ==
    IF p >= proj.nSidePixels * proj.nSidePixels
    THEN [pixel |-> proj.nSidePixels * proj.nSidePixels, contributions |-> <<>>]
    ELSE LET deposits == PixelDeposits(proj, p \div proj.nSidePixels, p % proj.nSidePixels)
         IN  IF deposits # <<>>
             THEN [pixel |-> p, contributions |-> deposits]
             ELSE Pending(proj, p + 1)

\* The thread goes on to the ray `next` of its projection, or to free() when
\* computeBackProjection has nothing left to store.
GoTo(w, next) ==
    LET n == projection[w].nSidePixels
    IN  IF next.pixel >= n * n
        THEN /\ pc' = [pc EXCEPT ![w] = "free"]
             /\ row' = [row EXCEPT ![w] = 0]
             /\ col' = [col EXCEPT ![w] = 0]
             /\ seg' = [seg EXCEPT ![w] = 0]
             /\ contributions' = [contributions EXCEPT ![w] = <<>>]
             /\ finished' = finished \cup {current[w]}
        ELSE /\ pc' = [pc EXCEPT ![w] = "absorb"]
             /\ row' = [row EXCEPT ![w] = next.pixel \div n]
             /\ col' = [col EXCEPT ![w] = next.pixel % n]
             /\ seg' = [seg EXCEPT ![w] = 1]
             /\ contributions' = [contributions EXCEPT ![w] = next.contributions]
             /\ finished' = finished

\* The same with a failed read that ends the loop at once, for every thread.
CheckAbandoning(w) ==
    /\ phase = "loop" /\ pc[w] = "check"
    /\ IF read[w]
       THEN /\ processedProjections' = processedProjections + 1
            /\ GoTo(w, Pending(projection[w], 0))
            /\ phase' = phase
       ELSE /\ processedProjections' = processedProjections
            /\ pc' = [v \in Workers |-> "done"]
            /\ phase' = "joined"
            /\ UNCHANGED <<row, col, seg, contributions, finished>>
    /\ UNCHANGED <<cbVars, gridVars, lineVars, mergeVars, beforeTables, writeVars>>
    /\ UNCHANGED <<inputFile, fileStores, filePos, header, lock, nextIter, projection, read,
                   volume, fault, current>>

\* "if (read) { processedProjections++ (atomic); computeBackProjection(...) }"
\* up to the first store into the volume.
Check(w) ==
    /\ phase = "loop" /\ pc[w] = "check"
    /\ IF read[w]
       THEN /\ processedProjections' = processedProjections + 1
            /\ \/ /\ GoTo(w, Pending(projection[w], 0))
                  /\ phase' = phase
               \/ \* sinTable[index] outside the table: the process may die of it
                  /\ projection[w].index \notin 0..(N_THETA - 1)
                  /\ phase' = "crashed"
                  /\ UNCHANGED <<pc, row, col, seg, contributions, finished>>
       ELSE /\ processedProjections' = processedProjections
            /\ pc' = [pc EXCEPT ![w] = "free"]
            /\ UNCHANGED <<row, col, seg, contributions, finished, phase>>
    /\ UNCHANGED <<cbVars, gridVars, lineVars, mergeVars, beforeTables, writeVars>>
    /\ UNCHANGED <<inputFile, fileStores, filePos, header, lock, nextIter, projection, read,
                   volume, fault, current>>

\* One store of computeAbsorption and everything up to the thread's next
\* store.  A store outside the array is undefined: it damages the heap
\* unseen, or the process dies of it.
Absorb(w) ==
    /\ phase = "loop" /\ pc[w] = "absorb"
    /\ LET deposit == contributions[w][seg[w]]
           GoOn == IF seg[w] < Len(contributions[w])
                   THEN /\ seg' = [seg EXCEPT ![w] = @ + 1]
                        /\ UNCHANGED <<pc, row, col, contributions, finished>>
                   ELSE GoTo(w, Pending(projection[w],
                                        row[w] * projection[w].nSidePixels + col[w] + 1))
       IN  IF InArray(deposit.voxelIndex)
           THEN /\ volume' = AtomicUpdate(volume, deposit)
                /\ GoOn
                /\ UNCHANGED <<fault, phase>>
           ELSE \/ /\ fault' = "damaged"
                   /\ GoOn
                   /\ UNCHANGED <<volume, phase>>
                \/ /\ phase' = "crashed"
                   /\ UNCHANGED <<pc, row, col, seg, contributions, finished, volume, fault>>
    /\ UNCHANGED <<cbVars, gridVars, lineVars, mergeVars, beforeTables, writeVars>>
    /\ UNCHANGED <<inputFile, fileStores, filePos, header, lock, nextIter, projection, read,
                   processedProjections, current>>

\* free(projection.pixels); the iteration ends.  When the reader returned
\* before its malloc the pointer was never set: free() of it is undefined,
\* the process goes on or dies of it.
Free(w) ==
    /\ phase = "loop" /\ pc[w] = "free"
    /\ \/ /\ projection' = [projection EXCEPT ![w] = Uninitialized]
          /\ read' = [read EXCEPT ![w] = FALSE]
          /\ current' = [current EXCEPT ![w] = 0]
          /\ pc' = [pc EXCEPT ![w] = "idle"]
          /\ phase' = phase
       \/ /\ projection[w] = Uninitialized
          /\ phase' = "crashed"
          /\ UNCHANGED <<projection, read, current, pc>>
    /\ UNCHANGED <<cbVars, gridVars, lineVars, mergeVars, beforeTables, writeVars>>
    /\ UNCHANGED <<inputFile, fileStores, filePos, header, lock, nextIter, row, col, seg, contributions,
                   volume, processedProjections, fault, finished>>

\* A barrier that lets the main thread go on as soon as one thread is done.
JoinEarly ==
    /\ phase = "loop"
    /\ \E w \in Workers : pc[w] = "done"
    /\ phase' = "joined"
    /\ UNCHANGED <<cbVars, gridVars, lineVars, mergeVars, beforeTables, writeVars>>
    /\ UNCHANGED <<inputFile, fileStores, filePos, header, lock, nextIter, pc, projection, read, row, col, seg,
                   contributions, volume, processedProjections, fault, current, finished>>

\* The implicit barrier at the end of the parallel loop.
Join ==
    /\ phase = "loop"
    /\ \A w \in Workers : pc[w] = "done"
    /\ phase' = "joined"
    /\ UNCHANGED <<cbVars, gridVars, lineVars, mergeVars, beforeTables, writeVars>>
    /\ UNCHANGED <<inputFile, fileStores, filePos, header, lock, nextIter, pc, projection, read, row, col, seg,
                   contributions, volume, processedProjections, fault, current, finished>>

\* ------------------------------------------------- main(): the write phase
\* The sizes the team can have: num_threads(2) asks for two threads, the
\* runtime gives two or, when its thread limit leaves no second one, one.
TeamSizes == {1, 2}

\* "#pragma omp parallel num_threads(2)": the team of the write phase starts.
Fork ==
    /\ phase = "joined"
    /\ phase' = "write"
    /\ \E n \in TeamSizes : wpc' = [t \in WriteTeam |-> IF t <= n THEN "single" ELSE "absent"]
    /\ UNCHANGED <<cbVars, gridVars, lineVars, mergeVars, beforeTables>>
    /\ UNCHANGED <<done, loadingBarIndex, written, freed, diagnostic>>
    /\ UNCHANGED <<inputFile, fileStores, filePos, header, lock, nextIter, pc, projection, read, row, col,
                   seg, contributions, volume, processedProjections, fault, current, finished>>

\* "#pragma omp single nowait": the first thread to arrive calls the writer,
\* the other goes on without waiting.
Single(t) ==
    /\ phase = "write" /\ wpc[t] = "single"
    /\ wpc' = [wpc EXCEPT ![t] = IF \A u \in WriteTeam : wpc[u] \in {"single", "absent"}
                                 THEN "writing" ELSE "critical"]
    /\ UNCHANGED <<cbVars, gridVars, lineVars, mergeVars, beforeTables>>
    /\ UNCHANGED <<done, loadingBarIndex, written, freed, diagnostic>>
    /\ UNCHANGED <<inputFile, fileStores, filePos, header, lock, nextIter, pc, projection, read, row, col,
                   seg, contributions, volume, processedProjections, fault, phase, current, finished>>

\* done = writeVolumeNRRD(...) or writeVolumeRAW(...): fwrite puts all the
\* coefficients into the file and the writer returns true, or it puts fewer
\* and the writer returns false.
Write(t) ==
    /\ phase = "write" /\ wpc[t] = "writing"
    /\ \E ok \in BOOLEAN :
          /\ done' = ok
          /\ written' = [returned |-> TRUE, complete |-> ok,
                         coefficients |-> IF ok THEN volume ELSE <<>>]
    /\ wpc' = [wpc EXCEPT ![t] = "wrote"]
    /\ UNCHANGED <<cbVars, gridVars, lineVars, mergeVars, beforeTables>>
    /\ UNCHANGED <<loadingBarIndex, freed, diagnostic>>
    /\ UNCHANGED <<inputFile, fileStores, filePos, header, lock, nextIter, pc, projection, read, row, col,
                   seg, contributions, volume, processedProjections, fault, phase, current, finished>>

\* "#pragma omp critical" of the write phase: the same unnamed critical
\* section as that of the projection loop.
EnterLoop(t) ==
    /\ phase = "write" /\ wpc[t] \in {"critical", "wrote"}
    /\ CriticalFree
    /\ lock' = t
    /\ wpc' = [wpc EXCEPT ![t] = "loop"]
    /\ UNCHANGED <<cbVars, gridVars, lineVars, mergeVars, beforeTables>>
    /\ UNCHANGED <<done, loadingBarIndex, written, freed, diagnostic>>
    /\ UNCHANGED <<inputFile, fileStores, filePos, header, nextIter, pc, projection, read, row, col,
                   seg, contributions, volume, processedProjections, fault, phase, current, finished>>

\* The same loop in a critical section that is never left.
LoopHolding(t) ==
    /\ phase = "write" /\ wpc[t] = "loop"
    /\ \/ /\ done
          /\ lock' = lock
          /\ wpc' = [wpc EXCEPT ![t] = "barrier"]
          /\ UNCHANGED loadingBarIndex
       \/ /\ ~done \/ \E u \in WriteTeam : wpc[u] = "wrote"
          /\ loadingBarIndex' = (loadingBarIndex + 1) % 4
          /\ UNCHANGED <<lock, wpc>>
    /\ UNCHANGED <<cbVars, gridVars, lineVars, mergeVars, beforeTables>>
    /\ UNCHANGED <<done, written, freed, diagnostic>>
    /\ UNCHANGED <<inputFile, fileStores, filePos, header, nextIter, pc, projection, read, row, col,
                   seg, contributions, volume, processedProjections, fault, phase, current, finished>>

\* "while (!done) { ... }" inside the critical section: one test of done, and
\* one turn of the loading bar when it reads false.  done is read without
\* synchronisation: while the thread that stored it has not reached the
\* critical section, the other thread's test may still read false.
Loop(t) ==
    /\ phase = "write" /\ wpc[t] = "loop"
    /\ \/ /\ done
          /\ lock' = 0
          /\ wpc' = [wpc EXCEPT ![t] = "barrier"]
          /\ UNCHANGED loadingBarIndex
       \/ /\ ~done \/ \E u \in WriteTeam : wpc[u] = "wrote"
          /\ loadingBarIndex' = (loadingBarIndex + 1) % 4
          /\ UNCHANGED <<lock, wpc>>
    /\ UNCHANGED <<cbVars, gridVars, lineVars, mergeVars, beforeTables>>
    /\ UNCHANGED <<done, written, freed, diagnostic>>
    /\ UNCHANGED <<inputFile, fileStores, filePos, header, nextIter, pc, projection, read, row, col,
                   seg, contributions, volume, processedProjections, fault, phase, current, finished>>

\* The end of the parallel region, the report, fclose, free and "return 0".
Return ==
    /\ phase = "write"
    /\ \A t \in WriteTeam : wpc[t] \in {"barrier", "absent"}
    /\ diagnostic' = IF done THEN "Writing volume to file.. Done!"
                             ELSE "Error writing the volume to the file!"
    /\ freed' = TRUE
    /\ phase' = "returned"
    /\ UNCHANGED <<cbVars, gridVars, lineVars, mergeVars, beforeTables>>
    /\ UNCHANGED <<done, wpc, loadingBarIndex, written>>
    /\ UNCHANGED <<inputFile, fileStores, filePos, header, lock, nextIter, pc, projection, read, row, col,
                   seg, contributions, volume, processedProjections, fault, current, finished>>

\* How the process has ended: the value main() returned, the status given to
\* exit(), or death by a signal.
ExitStatus ==
    IF phase = "returned" THEN "0"
    ELSE IF phase = "exit failure" THEN "EXIT_FAILURE"
    ELSE IF phase = "crashed" THEN "signal"
    ELSE "running"

Init == MainInit /\ CbIdle /\ GridIdle /\ LineIdle /\ MergeIdle

Next ==
    \/ \E w \in Workers : Schedule(w)
    \/ \E w \in Workers : EnterCritical(w)
    \/ \E w \in Workers : ReadHeader(w)
    \/ \E w \in Workers : ReadBody(w)
    \/ \E w \in Workers : Check(w)
    \/ \E w \in Workers : Absorb(w)
    \/ \E w \in Workers : Free(w)
    \/ Join
    \/ Fork
    \/ \E t \in WriteTeam : Single(t)
    \/ \E t \in WriteTeam : Write(t)
    \/ \E t \in WriteTeam : EnterLoop(t)
    \/ \E t \in WriteTeam : Loop(t)
    \/ Return

Spec == Init /\ [][Next]_vars

\* The same program on files of pixels that equal minVal.
InitBlank == MainInitOn(BlankFiles) /\ CbIdle /\ GridIdle /\ LineIdle /\ MergeIdle
SpecBlank == InitBlank /\ [][Next]_vars

\* coefficients with the first n of `stores` added, those that fall in the array.
RECURSIVE Accumulate(_, _, _)
Accumulate(coefficients, stores, n) ==
    IF n = 0 THEN coefficients
    ELSE LET d == stores[n].deposit
             before == Accumulate(coefficients, stores, n - 1)
         IN  IF InArray(d.voxelIndex)
             THEN [before EXCEPT ![d.voxelIndex] = AddTerm(@, d.unit, d.value)]
             ELSE before

\* The volume a single thread produces: the iterations 0 .. N_THETA - 1 in
\* order, each reading the next record and backprojecting it when the read
\* succeeded.  pos is the stream position, as filePos; stores[r] are the
\* contributions of record r.
RECURSIVE SerialLoop(_, _, _, _, _)
SerialLoop(file, stores, i, pos, coefficients) ==
    IF i >= N_THETA THEN coefficients
    ELSE IF pos = 0 /\ ~file.headerOk THEN SerialLoop(file, stores, i + 1, pos, coefficients)
    ELSE LET r == IF pos = 0 THEN 1 ELSE pos
         IN  IF r > Len(file.records) THEN SerialLoop(file, stores, i + 1, r, coefficients)
             ELSE IF ~Complete(file, r) THEN SerialLoop(file, stores, i + 1, r + 1, coefficients)
             ELSE SerialLoop(file, stores, i + 1, r + 1,
                             Accumulate(coefficients, stores[r], Len(stores[r])))

\* The write phase on its own, from the states in which the projection loop
\* of a file with a well-formed header ends.
WriteFiles == {file \in InputFiles : file.headerOk /\ ~ReadsBesideTables(file)
                                       /\ file.magic \in {"", "P2"} /\ CountOf(file) = N_THETA}

Joined(file) ==
    LET stores == RecordStores(file, Len(file.records))
        complete == {r \in DOMAIN file.records : Complete(file, r)}
    IN  /\ inputFile = file /\ fileStores = stores
        /\ beforeTables = <<0, 0>>
        /\ filePos = Len(file.records) + 1 /\ header = HeaderOf(file) /\ lock = 0
        /\ nextIter = N_THETA
        /\ pc = [w \in Workers |-> "done"]
        /\ projection = [w \in Workers |-> Uninitialized]
        /\ read = [w \in Workers |-> FALSE]
        /\ row = [w \in Workers |-> 0] /\ col = [w \in Workers |-> 0] /\ seg = [w \in Workers |-> 0]
        /\ contributions = [w \in Workers |-> <<>>]
        /\ volume = SerialLoop(file, stores, 0, 0, ZeroVolume)
        /\ processedProjections = Cardinality(complete)
        /\ fault = IF \E r \in complete : \E k \in DOMAIN stores[r] :
                          ~InArray(stores[r][k].deposit.voxelIndex)
                   THEN "damaged" ELSE "none"
        /\ phase = "joined"
        /\ current = [w \in Workers |-> 0] /\ finished = complete
        /\ done = FALSE /\ wpc = [t \in WriteTeam |-> "idle"] /\ loadingBarIndex = 0
        /\ written = NotWritten /\ freed = FALSE /\ diagnostic = ""

InitWrite == (\E file \in WriteFiles : Joined(file)) /\ CbIdle /\ GridIdle /\ LineIdle /\ MergeIdle
NextWrite ==
    \/ Fork
    \/ \E t \in WriteTeam : Single(t)
    \/ \E t \in WriteTeam : Write(t)
    \/ \E t \in WriteTeam : EnterLoop(t)
    \/ \E t \in WriteTeam : Loop(t)
    \/ Return
SpecWrite == InitWrite /\ [][NextWrite]_vars

\* Some thread of the team that can take a step takes one.
SpecWriteFair == SpecWrite /\ WF_vars(NextWrite)

\* The test of done that reads true and leaves the loop.
LeaveLoop(t) == Loop(t) /\ wpc'[t] = "barrier"

\* Every thread of the team that can take a step takes one, and a thread that
\* tests done again and again reads the stored value after finitely many
\* tests: fprintf and nanosleep in the body make every test a load from
\* memory, and a store made by the other thread reaches it in finite time.
SpecWriteThreads ==
    /\ SpecWrite
    /\ WF_vars(Fork) /\ WF_vars(Return)
    /\ \A t \in WriteTeam :
          /\ WF_vars(Single(t)) /\ WF_vars(Write(t))
          /\ WF_vars(EnterLoop(t)) /\ WF_vars(LeaveLoop(t))

\* computeBackProjection of one projection, every projection index and side.
InitRay == Idle /\ CbInit /\ GridIdle /\ LineIdle /\ MergeIdle
NextRay == CbTraceRay \/ CbAbsorb \/ CbReturn
SpecRay == InitRay /\ [][NextRay]_vars

\* The voxel index over the voxels of a grid, every grid size.
InitGrid == Idle /\ CbIdle /\ GridInit /\ LineIdle /\ MergeIdle
NextGrid == GridVisit
SpecGrid == InitGrid /\ [][NextGrid]_vars

\* The traversal of a ray between any two points and of its mirror image.
InitLine == Idle /\ CbIdle /\ GridIdle /\ LineInit /\ MergeIdle
NextLine == LnTraceRay \/ LnAbsorb \/ LnReturn
SpecLine == InitLine /\ [][NextLine]_vars

\* mergeIntersections on any three sorted arrays of at most MaxLen elements.
InitMerge == Idle /\ CbIdle /\ GridIdle /\ LineIdle /\ MergeInit
NextMerge == MgThree \/ MgTwo \/ MgOne \/ MgLeave
SpecMerge == InitMerge /\ [][NextMerge]_vars

\* ================================================================ properties
\* The number of contributions thread w has stored of `stores`, the
\* contributions of its projection.
StoredBy(w, stores) ==
    LET p == row[w] * projection[w].nSidePixels + col[w]
    IN  Cardinality({k \in DOMAIN stores :
                        \/ stores[k].pixel < p
                        \/ stores[k].pixel = p /\ stores[k].seg < seg[w]})

\* What the contributions computed so far add up to: all those of the
\* finished records 1..r, and those each working thread has got through.
RECURSIVE ComputedSoFar(_, _)
ComputedSoFar(all, r) ==
    IF r = 0 THEN ZeroVolume
    ELSE LET stores == all[r]
             rest == ComputedSoFar(all, r - 1)
         IN  IF r \in finished
             THEN Accumulate(rest, stores, Len(stores))
             ELSE IF \E w \in Workers : pc[w] = "absorb" /\ current[w] = r
             THEN LET w == CHOOSE w \in Workers : pc[w] = "absorb" /\ current[w] = r
                  IN  Accumulate(rest, stores, StoredBy(w, stores))
             ELSE rest

\* C1: under every interleaving each contribution is added to its voxel
\* exactly once: at every moment every voxel holds exactly the sum of the
\* contributions computed for it so far, none lost and none added twice, and
\* so it does after the loop.
C1_EveryDeltaOnce == volume = ComputedSoFar(fileStores, Len(fileStores))

\* The contribution thread w is about to store.
NextStore(w) == contributions[w][seg[w]]

\* Two threads are about to add a non-zero contribution to the same voxel,
\* which already holds a value.
C1_Witness ==
    /\ phase = "loop"
    /\ \E w1, w2 \in Workers :
          /\ w1 # w2 /\ pc[w1] = "absorb" /\ pc[w2] = "absorb"
          /\ NextStore(w1).voxelIndex = NextStore(w2).voxelIndex
          /\ InArray(NextStore(w1).voxelIndex)
          /\ NextStore(w1).value # 0 /\ NextStore(w2).value # 0
          /\ volume[NextStore(w1).voxelIndex] # Zero

\* The threads inside readProjectionDAT / readProjectionPGM.
InReader == {w \in Workers : pc[w] \in {"header", "body"}}

\* C9: at most one thread executes the projection reader at any time, so
\* the stream position and the shared width, height, minVal and maxVal are
\* never used by two threads at once; the thread inside is the one that holds
\* the critical section.
C9_SingleReader ==
    /\ Cardinality(InReader) <= 1
    /\ \A w \in InReader : lock = w

\* One thread is inside the reader while another is backprojecting.
C9_Witness ==
    \E w1, w2 \in Workers :
        /\ pc[w1] = "body" /\ lock = w1 /\ filePos > 1
        /\ pc[w2] = "absorb"

\* C10: when the parallel loop has ended, the volume is the one a single
\* thread produces from the same input file, whatever thread read which
\* projection and whatever the order of the stores.
C10_ParallelIsSerial == phase = "joined" => volume = SerialLoop(inputFile, fileStores, 0, 0, ZeroVolume)

\* The loop has ended after all N_THETA projections were backprojected, and
\* voxels hold sums of several projections.
C10_Witness ==
    /\ phase = "joined"
    /\ processedProjections = N_THETA
    /\ Cardinality(finished) = N_THETA
    /\ \E v \in VoxelIndices : Cardinality(DOMAIN volume[v]) >= 2

\* ------------------------------------------------- one ray (SpecRay)
\* computeAbsorption is running, or has just run, on the ray of the pixel
\* (cbRow, cbCol).
CbHanded == cbStage = "absorb"
CbAbsorbed == cbStage = "absorb" /\ cbSeg >= Len(cbTrace.aMerged)

\* C2: for every ray that is not skipped and every consecutive pair of
\* merged alphas the voxel indices of the midpoint are inside the grid, so
\* the linear index written lies in [0, Nx*Ny*Nz).
C2_IndicesInRange ==
    CbHanded =>
        \A i \in DOMAIN CbDeposits :
            /\ CbDeposits[i].voxelX \in 0..(N_VOXELS_X - 1)
            /\ CbDeposits[i].voxelY \in 0..(N_VOXELS_Y - 1)
            /\ CbDeposits[i].voxelZ \in 0..(N_VOXELS_Z - 1)
            /\ CbDeposits[i].voxelIndex \in 0..(N_COEFFICIENTS - 1)

\* The alphas between which the ray is inside the slab of voxel v of an axis;
\* a ray parallel to the axis is inside for every alpha or for none.
SlabAlphas(ray, axis, v) ==
    LET d == Delta(ray, axis)
        s == ray.source[axis]
        p0 == getPlanePosition(axis, v)
        p1 == getPlanePosition(axis, v + 1)
    IN  IF d = 0
        THEN IF p0 <= s /\ s < p1 THEN [lo |-> -INF, hi |-> INF] ELSE [lo |-> INF, hi |-> -INF]
        ELSE IF d > 0
        THEN [lo |-> AlphaDiv(ray, p0 - s, d), hi |-> AlphaDiv(ray, p1 - s, d)]
        ELSE [lo |-> AlphaDiv(ray, p1 - s, d), hi |-> AlphaDiv(ray, p0 - s, d)]

\* The geometric length of the ray inside voxel (x, y, z), as a difference of
\* alphas in units of 1 / RayScale(ray).
Chord(ray, x, y, z) ==
    LET sx == SlabAlphas(ray, X, x)
        sy == SlabAlphas(ray, Y, y)
        sz == SlabAlphas(ray, Z, z)
        lo == Fmax(0, Fmax(sx.lo, Fmax(sy.lo, sz.lo)))
        hi == Fmin(RayScale(ray), Fmin(sx.hi, Fmin(sy.hi, sz.hi)))
    IN  IF hi > lo THEN hi - lo ELSE 0

\* The contributions of positive length the current ray makes to voxel (x, y, z).
CbInto(x, y, z) ==
    {i \in DOMAIN CbDeposits :
        /\ CbDeposits[i].voxelX = x /\ CbDeposits[i].voxelY = y /\ CbDeposits[i].voxelZ = z
        /\ CbDeposits[i].segment > 0}

\* C4: every voxel the ray crosses with positive length receives from the
\* ray exactly one contribution, of the geometric length of the ray inside
\* that voxel (times the normalised pixel value, over dos + dod); the first
\* and the last voxel of the ray included.
C4_EveryCrossedVoxel ==
    CbAbsorbed =>
        \A x \in 0..(N_VOXELS_X - 1), y \in 0..(N_VOXELS_Y - 1), z \in 0..(N_VOXELS_Z - 1) :
            Chord(CbRay, x, y, z) > 0 =>
                /\ Cardinality(CbInto(x, y, z)) = 1
                /\ \A i \in CbInto(x, y, z) : CbDeposits[i].segment = Chord(CbRay, x, y, z)

RECURSIVE SumValues(_, _)
SumValues(deposits, n) == IF n = 0 THEN 0 ELSE SumValues(deposits, n - 1) + deposits[n].value

CbPixelValue ==
    cbProjection.pixels[cbRow * cbProjection.nSidePixels + cbCol + 1] - cbProjection.minVal

\* C5: the contributions of a ray with aMin < aMax add up to (normalised
\* pixel value) * (aMax - aMin) * L / (dos + dod).
C5_TotalLength ==
    CbAbsorbed =>
        SumValues(CbDeposits, Len(CbDeposits)) = CbPixelValue * (cbTrace.aMax - cbTrace.aMin)

\* C6: the list handed to computeAbsorption starts with aMin and ends with aMax.
C6_EndsAreAMinAMax ==
    CbHanded =>
        /\ cbTrace.aMerged # <<>>
        /\ cbTrace.aMerged[1] = cbTrace.aMin
        /\ cbTrace.aMerged[Len(cbTrace.aMerged)] = cbTrace.aMax

isArraySorted(a) == \A m \in 2..Len(a) : a[m] >= a[m - 1]

\* C7: the list of every axis and the merged list are non-decreasing,
\* whatever the sign of the direction on the axis, and a list is produced
\* only for a ray with aMax > aMin.
C7_NonDecreasing ==
    CbHanded =>
        /\ \A axis \in Axes : isArraySorted(cbTrace.a[axis])
        /\ isArraySorted(cbTrace.aMerged)
        /\ Len(cbTrace.aMerged) = Len(cbTrace.a[X]) + Len(cbTrace.a[Y]) + Len(cbTrace.a[Z])
        /\ cbTrace.aMax > cbTrace.aMin

\* A ray that goes down one axis and up another, crossing several planes of each.
C7_Witness ==
    /\ CbHanded
    /\ \E a1, a2 \in Axes :
          /\ Delta(CbRay, a1) < 0 /\ Len(cbTrace.a[a1]) >= 2
          /\ Delta(CbRay, a2) > 0 /\ Len(cbTrace.a[a2]) >= 2
    /\ Len(cbTrace.aMerged) >= 4

\* ------------------------------------------------- the projection loop
\* The sign of a term c * sqrt(len2) / (scale * range * (DOD + DOS)).
TermSign(unit, c) == Sgn(c) * Sgn(unit[3])

\* C3: at every point of the reconstruction every voxel value is >= 0 and
\* every contribution about to be deposited is >= 0, whatever projection the
\* reader has handed over.
C3_NonNegative ==
    /\ \A v \in VoxelIndices : \A u \in DOMAIN volume[v] : TermSign(u, volume[v][u]) >= 0
    /\ \A w \in Workers :
          pc[w] = "absorb" => TermSign(NextStore(w).unit, NextStore(w).value) >= 0

\* ------------------------------------------------- the voxel index (SpecGrid)
\* C8: for every grid size the index y*Nx*Nz + z*Nz + x is injective on the
\* voxels of the grid and lies in [0, Nx*Ny*Nz).
C8_IndexInjective ==
    \A p, q \in gridSeen :
        /\ p[1] \in 0..(gridSize[1] * gridSize[2] * gridSize[3] - 1)
        /\ p[1] = q[1] => p[2] = q[2]

\* ------------------------------------------------- skipped rays (SpecRay)
\* aMin and aMax of a ray, from the side planes.
RayAMin(ray) == getAMin(ray, getParallelAxis(ray), getSidesIntersections(ray, getParallelAxis(ray)))
RayAMax(ray) == getAMax(ray, getParallelAxis(ray), getSidesIntersections(ray, getParallelAxis(ray)))

\* The pixel loop has gone on to the pixel after (cbRow, cbCol), or has ended
\* after the last pixel.
CbWentOn ==
    LET n == cbProjection.nSidePixels
        p == cbRow * n + cbCol + 1
    IN  IF p < n * n
        THEN cbStage' = "ray" /\ cbRow' = p \div n /\ cbCol' = p % n
        ELSE cbStage' = "end"

\* C11: a ray with aMin >= aMax (aMin = aMax included) deposits nothing:
\* the step that handles it leaves the volume as it was, damages nothing, never
\* enters computeAbsorption, and goes on to the next pixel.
C11_MissDepositsNothing ==
    [][(cbStage = "ray" /\ RayAMin(CbRay) >= RayAMax(CbRay)) =>
          /\ cbVolume' = cbVolume
          /\ cbFault' = cbFault
          /\ CbWentOn]_vars

\* The loop has just gone past a ray with aMin = aMax, after rays that
\* deposited into the volume.
C11_Witness ==
    /\ cbStage = "ray"
    /\ cbRow * cbProjection.nSidePixels + cbCol > 0
    /\ cbVolume # ZeroVolume
    /\ LET n == cbProjection.nSidePixels
           p == cbRow * n + cbCol - 1
           ray == RayOf(cbProjection, p \div n, p % n)
       IN  RayAMin(ray) = RayAMax(ray)

\* ------------------------------------------------- pixels at minVal (SpecBlank)
AllMinVal(file) ==
    \A r \in DOMAIN file.records :
        \A j \in DOMAIN file.records[r].pixels : file.records[r].pixels[j] = file.minVal

\* The pixel of the ray thread w is backprojecting.
PixelOf(w) == projection[w].pixels[row[w] * projection[w].nSidePixels + col[w] + 1]

\* C12: a pixel whose value equals minVal contributes 0 to every voxel it
\* is backprojected into, and when all pixels of all projections equal minVal
\* the volume is zero throughout and at the end.
C12_MinValAddsNothing ==
    /\ \A w \in Workers :
          (pc[w] = "absorb" /\ PixelOf(w) = projection[w].minVal) =>
              \A i \in DOMAIN contributions[w] : contributions[w][i].value = 0
    /\ AllMinVal(inputFile) => volume = ZeroVolume

\* All N_THETA projections of a file of minVal pixels have been backprojected,
\* each with stores into the volume, and the loop has ended.
C12_Witness ==
    /\ phase = "joined"
    /\ AllMinVal(inputFile)
    /\ inputFile.minVal > 0
    /\ Cardinality(finished) = N_THETA
    /\ \A r \in DOMAIN fileStores : \E k \in DOMAIN fileStores[r] : fileStores[r][k].deposit.segment > 0

\* ------------------------------------------------- any ray (SpecLine)
LnAbsorbed == lnStage = "absorb" /\ lnSeg >= Len(lnTrace.aMerged)

\* The ray runs along z (dx = dy = 0), inside the extent of the volume in x
\* and y, from one side of the volume to the other.
AlongZThrough(ray) ==
    /\ Delta(ray, X) = 0 /\ Delta(ray, Y) = 0
    /\ firstPlane[X] < ray.source[X] /\ ray.source[X] < lastPlane[X]
    /\ firstPlane[Y] < ray.source[Y] /\ ray.source[Y] < lastPlane[Y]
    /\ \/ ray.source[Z] <= firstPlane[Z] /\ ray.pixel[Z] >= lastPlane[Z]
       \/ ray.pixel[Z] <= firstPlane[Z] /\ ray.source[Z] >= lastPlane[Z]

\* C13: a ray along z through the whole volume has alphas of the Z planes
\* only and deposits exactly N_VOXELS_Z segments, one into each voxel of its
\* column.
C13_AlongZ ==
    (LnAbsorbed /\ AlongZThrough(lnRay)) =>
        /\ Len(lnTrace.a[X]) = 0 /\ Len(lnTrace.a[Y]) = 0
        /\ Len(lnTrace.aMerged) = Len(lnTrace.a[Z])
        /\ Len(LnDeposits) = N_VOXELS_Z
        /\ \A z \in 0..(N_VOXELS_Z - 1) :
              Cardinality({i \in DOMAIN LnDeposits :
                              /\ LnDeposits[i].voxelZ = z
                              /\ LnDeposits[i].voxelX = LnDeposits[1].voxelX
                              /\ LnDeposits[i].voxelY = LnDeposits[1].voxelY
                              /\ LnDeposits[i].segment > 0}) = 1

\* Both the ray and its mirror image have been traversed.
LnBothDone == lnStage = "end" /\ lnMirror /\ lnFault = "none"

\* C14: the mirror image in the plane x = 0 of a ray, with the same
\* normalised pixel value, deposits into voxel (Nx-1-x, y, z) what the ray
\* deposits into voxel (x, y, z), for every voxel.
C14_MirrorSymmetry ==
    LnBothDone =>
        \A x \in 0..(N_VOXELS_X - 1), y \in 0..(N_VOXELS_Y - 1), z \in 0..(N_VOXELS_Z - 1) :
            lnVolume[VoxelIndex(N_VOXELS_X - 1 - x, y, z, N_VOXELS_X, N_VOXELS_Z)]
                = lnFirst[VoxelIndex(x, y, z, N_VOXELS_X, N_VOXELS_Z)]

\* ------------------------------------------------- the end of the process
\* The writer has returned false.
WriterFailed == written.returned /\ ~written.complete

\* C15: when the volume writer returns false the process ends with a
\* diagnostic on stderr and a non-zero exit status; it does not stay in the
\* write phase for ever and does not return 0.
C15_WriterFailureIsFatal == WriterFailed ~> (ExitStatus = "EXIT_FAILURE" /\ diagnostic # "")

\* C16: when a read of a projection fails before N_THETA projections have
\* been delivered, the process ends with a non-zero exit status: no volume is
\* written and main() does not return 0.
C16_ReadFailureIsFatal ==
    (written.returned \/ ExitStatus = "0") => processedProjections = N_THETA

\* The records whose projection has been handed to computeBackProjection.
Handed == finished \cup {current[w] : w \in {v \in Workers : pc[v] = "absorb"}}

\* C17: a projection whose angle in the file is outside [-360, 360] is
\* rejected: it is never handed to computeBackProjection, none of its
\* contributions reaches the volume, and the process ends with a failure.
C17_AngleOutOfRangeRejected ==
    /\ \A r \in Handed : inputFile.records[r].angle \in (-360)..360
    /\ (\E r \in DOMAIN inputFile.records : inputFile.records[r].angle \notin (-360)..360)
           => ExitStatus # "0"

\* The header of the file has another magic number than P2, or a projection
\* count that is not N_THETA.
Malformed(file) ==
    \/ file.ext = "pgm" /\ file.magic # "P2"
    \/ CountOf(file) # N_THETA

\* C18: with a wrong magic number or a projection count that is not
\* N_THETA the process ends with a failure exit before any contribution is
\* deposited: no thread gets past the first read, the volume stays zero and
\* main() never reaches the write phase.
C18_MalformedHeaderIsFatal ==
    Malformed(inputFile) =>
        /\ volume = ZeroVolume
        /\ processedProjections = 0
        /\ \A w \in Workers : pc[w] \in {"idle", "critical", "header"}
        /\ phase \in {"loop", "exit failure"}
        /\ filePos # 0 => ExitStatus = "EXIT_FAILURE"

\* The angle of the record thread w has read, normalised to [0, 360).
NormalisedAngle(w) == inputFile.records[current[w]].angle % 360

\* C19: every projection handed to computeBackProjection has
\* index = floor((normalised angle + 180) / 360 * N_THETA) mod N_THETA, in
\* 0 .. N_THETA - 1, whatever angle the reader accepted, so that sinTable[index]
\* and cosTable[index] are reads inside the tables.
C19_IndexInTables ==
    \A w \in Workers :
        (read[w] /\ pc[w] \in {"absorb", "free"}) =>
            /\ projection[w].index \in 0..(N_THETA - 1)
            /\ projection[w].index = (((NormalisedAngle(w) + 180) * N_THETA) \div 360) % N_THETA

\* The order of the volume's life in one state: nothing is in the volume
\* before the first call of computeBackProjection; once the write phase has
\* started every thread of the loop has finished its last iteration; what a
\* successful writer has put into the file is the volume as it is; the volume
\* is freed only when the writer has returned.
VolumeOrder ==
    /\ processedProjections = 0 => volume = ZeroVolume
    /\ phase \in {"joined", "write", "returned"} => \A w \in Workers : pc[w] = "done"
    /\ written.returned => phase \in {"write", "returned"}
    /\ written.complete => written.coefficients = volume
    /\ freed => written.returned /\ phase = "returned"

\* A step that changes the volume is taken inside the projection loop by a
\* thread that is in computeBackProjection, before the writer is called.
DepositsInLoop ==
    volume' # volume =>
        /\ phase = "loop" /\ ~written.returned /\ ~freed
        /\ \E w \in Workers : pc[w] = "absorb" /\ pc'[w] \in {"absorb", "free"}

\* C20: the volume is all zeros before the first deposit, the writer starts
\* only after every thread has finished all deposits of every projection (no
\* deposit happens during or after the write), and the volume is freed only
\* after the writer has returned.
C20_VolumeLifecycle == []VolumeOrder /\ [][DepositsInLoop]_vars

C20_Witness ==
    /\ phase = "returned" /\ freed /\ written.complete
    /\ processedProjections = N_THETA
    /\ volume # ZeroVolume /\ written.coefficients = volume

\* ------------------------------------ plane ranges and crossings (SpecRay)
\* The alpha at which the ray crosses plane i of an axis it is not parallel to.
PlaneAlpha(ray, axis, i) ==
    AlphaDiv(ray, getPlanePosition(axis, i) - ray.source[axis], Delta(ray, axis))

\* The planes of the axis the ray crosses at an alpha in [aMin, aMax].
CrossedPlanes(ray, axis, aMin, aMax) ==
    {i \in 0..N_VOXELS[axis] : aMin <= PlaneAlpha(ray, axis, i) /\ PlaneAlpha(ray, axis, i) <= aMax}

\* C21: for every ray that is not skipped and every axis with a non-zero
\* delta, the range [min, max] of getPlanesRanges is exactly the set of plane
\* indices in 0 .. nVoxels whose crossing alpha lies in [aMin, aMax].
C21_RangeIsCrossedPlanes ==
    CbHanded =>
        \A axis \in Axes :
            Delta(CbRay, axis) # 0 =>
                (cbTrace.planesRanges[axis].min)..(cbTrace.planesRanges[axis].max)
                    = CrossedPlanes(CbRay, axis, cbTrace.aMin, cbTrace.aMax)

\* The scratch array of an axis: "fmax(0, max - min)" elements.
ScratchSize(range) == IF range.max - range.min > 0 THEN range.max - range.min ELSE 0

\* The plane indices getAllIntersections computes an alpha of: minIndex and
\* the planes above it for a positive delta, maxIndex and the planes below it
\* for a negative one, ScratchSize of them.
PlanesUsed(ray, range, axis) ==
    IF range.min >= range.max \/ Delta(ray, axis) = 0 THEN {}
    ELSE IF Delta(ray, axis) > 0
    THEN {range.min + i : i \in 0..(ScratchSize(range) - 1)}
    ELSE {range.max - i : i \in 0..(ScratchSize(range) - 1)}

\* C22: for every ray that is not skipped and every axis, 0 <= min and
\* max <= nPlanes, so the scratch array of the axis has at most nPlanes
\* elements and every plane index an alpha is computed of is that of an
\* existing plane.
C22_RangesInBounds ==
    CbHanded =>
        \A axis \in Axes :
            LET range == cbTrace.planesRanges[axis]
            IN  /\ 0 <= range.min
                /\ range.max <= N_PLANES[axis]
                /\ ScratchSize(range) <= N_PLANES[axis]
                /\ Len(cbTrace.a[axis]) = ScratchSize(range)
                /\ PlanesUsed(CbRay, range, axis) \subseteq 0..N_VOXELS[axis]

\* A ray that is not skipped has been traced: its range is empty on one axis,
\* reaches the last plane on another, and it has an axis of each sign.
C22_Witness ==
    /\ CbHanded
    /\ \E axis \in Axes : cbTrace.planesRanges[axis].min >= cbTrace.planesRanges[axis].max
    /\ \E axis \in Axes : Delta(CbRay, axis) > 0 /\ cbTrace.planesRanges[axis].max = N_VOXELS[axis]
    /\ \E axis \in Axes : Delta(CbRay, axis) < 0 /\ ScratchSize(cbTrace.planesRanges[axis]) >= 1

\* The ray crosses plane i of the axis strictly between the alphas lo and hi.
CrossesBetween(ray, axis, i, lo, hi) ==
    /\ Delta(ray, axis) # 0
    /\ lo < PlaneAlpha(ray, axis, i) /\ PlaneAlpha(ray, axis, i) < hi

\* C23: for every ray that is not skipped, every crossing of a grid plane of
\* any axis at an alpha strictly between aMin and aMax is in the merged list,
\* so that between two consecutive merged alphas the ray crosses no plane and
\* stays inside one voxel.
C23_EveryCrossingMerged ==
    CbHanded =>
        /\ \A axis \in Axes : \A i \in 0..N_VOXELS[axis] :
               CrossesBetween(CbRay, axis, i, cbTrace.aMin, cbTrace.aMax) =>
                   \E m \in DOMAIN cbTrace.aMerged :
                       cbTrace.aMerged[m] = PlaneAlpha(CbRay, axis, i)
        /\ \A m \in 1..(Len(cbTrace.aMerged) - 1) :
               \A axis \in Axes : \A i \in 0..N_VOXELS[axis] :
                   ~CrossesBetween(CbRay, axis, i, cbTrace.aMerged[m], cbTrace.aMerged[m + 1])

\* ------------------------------------------------- any ray (SpecLine)
\* computeAbsorption is running, or has just run, on the ray lnRay.
LnHanded == lnStage = "absorb"

\* getSidesIntersections has divided by the delta of the axis.
Divided(ray, parallelTo, axis) == axis # parallelTo

\* C24: every axis with a zero delta is left out of the computation of the
\* bounding interval, also when two deltas are zero at once:
\* getSidesIntersections divides by no zero delta, and aMin and aMax are those
\* of the other axes.
C24_ZeroDeltasExcluded ==
    LnHanded =>
        LET sides == getSidesIntersections(lnRay, lnTrace.parallelTo)
        IN  \A axis \in Axes :
                /\ Divided(lnRay, lnTrace.parallelTo, axis) => Delta(lnRay, axis) # 0
                /\ Delta(lnRay, axis) # 0 => IsFinite(sides[axis][1]) /\ IsFinite(sides[axis][2])
                /\ Delta(lnRay, axis) = 0 => sides[axis] = <<NAN, NAN>>

\* --------------------------------------- mergeIntersections (SpecMerge)
\* How many elements of the array equal v.
Count(a, v) == Cardinality({m \in DOMAIN a : a[m] = v})

MgReturned == mgLoop = 8

\* C25: mergeIntersections, given three sorted arrays of any sizes, zero
\* included, writes exactly aXSize + aYSize + aZSize values, which are sorted
\* and hold every value as often as the three arrays together; it never reads
\* an element at or beyond the size of its array.
C25_MergeIsSortedUnion ==
    /\ ~mgOutside
    /\ mgI <= Len(mgX) /\ mgJ <= Len(mgY) /\ mgK <= Len(mgZ)
    /\ Len(mgMerged) = mgI + mgJ + mgK
    /\ isArraySorted(mgMerged)
    /\ MgReturned =>
          /\ Len(mgMerged) = Len(mgX) + Len(mgY) + Len(mgZ)
          /\ \A v \in MergeValues :
                 Count(mgMerged, v) = Count(mgX, v) + Count(mgY, v) + Count(mgZ, v)
          /\ mgMerged = mergeIntersections(mgX, mgY, mgZ)

\* The function has returned from arrays of which one is empty and the two
\* others share a value.
C25_Witness ==
    /\ MgReturned
    /\ mgX = <<>> /\ Len(mgY) = MaxLen /\ Len(mgZ) = MaxLen
    /\ \E m \in DOMAIN mgY : \E n \in DOMAIN mgZ : mgY[m] = mgZ[n]
    /\ mgZ[1] < mgY[1]

\* ------------------------------------------- the detector (SpecRay)
\* The pixel (cbRow, cbCol) is one the pixel loop passes through.
CbAtPixel == cbRow < cbProjection.nSidePixels /\ cbCol < cbProjection.nSidePixels

\* The centre of the detector of the projection: the pixel positions are
\* offsets from it.
DetectorCentre(proj) ==
    Point(DOD * sinTable[proj.index], -DOD * cosTable[proj.index], 0)

\* C26: the half-width used by getPixelPosition is N * pixelSize / 2 -
\* pixelSize / 2 exactly, for every detector side N, even or odd: the first
\* pixel lies (N - 1) * pixelSize / 2 from the centre, and the centres of the
\* pixels are symmetric about the centre of the detector, offset(c) =
\* -offset(N - 1 - c) for every column and every row.
C26_DetectorSymmetric ==
    CbAtPixel =>
        LET n == cbProjection.nSidePixels
            centre == DetectorCentre(cbProjection)
            here == getPixelPosition(cbProjection, cbRow, cbCol)
            across == getPixelPosition(cbProjection, n - 1 - cbRow, n - 1 - cbCol)
            first == getPixelPosition(cbProjection, 0, 0)
        IN  /\ \A axis \in Axes : here[axis] - centre[axis] = -(across[axis] - centre[axis])
            /\ 2 * (centre[Z] - first[Z]) = n * PIXEL_SIZE - PIXEL_SIZE

\* ------------------------------------------- failed reads (Spec)
\* The read of thread w's iteration has returned false.
ReadFailed(w) == pc[w] \in {"check", "free"} /\ ~read[w]

\* The records the reader has returned true for.
Delivered == {r \in 1..(filePos - 1) : r <= Len(inputFile.records) /\ Complete(inputFile, r)}

\* The loop has ended and the process has not died in it.
LoopLeft == phase \in {"joined", "write", "returned"}

\* C27: a failed read in one thread leaves the backprojections of the other
\* threads alone: each goes on to its end, and when the loop has ended every
\* projection that was read is in the volume with all its contributions; the
\* projection of the failed read contributes nothing; and the loop makes at
\* most N_THETA read attempts, one per iteration.
C27_FailedReadSparesOthers ==
    /\ nextIter <= N_THETA
    /\ \A w \in Workers :
          ReadFailed(w) => /\ contributions[w] = <<>>
                           /\ current[w] \notin finished
                           /\ current[w] \in DOMAIN fileStores => fileStores[current[w]] = <<>>
    /\ \A w \in Workers : pc[w] = "absorb" => read[w]
    /\ finished \subseteq Delivered
    /\ LoopLeft =>
          /\ finished = Delivered
          /\ processedProjections = Cardinality(Delivered)
          /\ volume = ComputedSoFar(fileStores, Len(fileStores))

\* The read of one thread has failed while another thread is in the middle of
\* a backprojection.
C27_Witness ==
    \E w1, w2 \in Workers :
        /\ ReadFailed(w1) /\ phase = "loop"
        /\ pc[w2] = "absorb" /\ seg[w2] > 1

\* ------------------------------------------- free(projection.pixels) (Spec)
\* Thread w is at "free(projection.pixels)".
AtFree(w) == pc[w] = "free"

\* C28: in every iteration the pointer given to free(projection.pixels) is
\* the buffer the read of that iteration has allocated, whatever the reader
\* returned, a failed first read (header unreadable) included; the buffer is
\* freed once, after the backprojection of the iteration has ended.
C28_FreesOwnBuffer ==
    /\ \A w \in Workers :
          AtFree(w) => /\ projection[w] # Uninitialized
                       /\ contributions[w] = <<>>
                       /\ read[w] => current[w] \in finished
    /\ \A w \in Workers : pc[w] \in {"idle", "critical", "header", "done"} => projection[w] = Uninitialized

\* The angle of table entry i, in degrees, as initTables computes it.
TableAngle(i) == (AP \div 2) + i * STEP_ANGLE

\* The angles the projections are taken from, as written or reduced modulo 360.
TakenFrom == {TableAngle(i) : i \in 0..(N_THETA - 1)} \cup {TableAngle(i) % 360 : i \in 0..(N_THETA - 1)}

\* The thread w holds the projection of a record it has read.
Holds(w) == pc[w] \in {"check", "absorb", "free"} /\ current[w] # 0

\* C29: a projection whose angle is the angle of a table entry (reduced modulo
\* 360 or not) gets an index inside the tables whose table angle is congruent
\* to the projection's angle modulo 360, so the sine and cosine used for the
\* source and the detector are those of the projection's angle.
C29_IndexSelectsAngle ==
    \A w \in Workers :
        Holds(w) =>
            LET angle == inputFile.records[current[w]].angle
                index == projection[w].index
            IN  angle \in TakenFrom =>
                    /\ index \in 0..(N_THETA - 1)
                    /\ TableAngle(index) % 360 = angle % 360
                    /\ sinTable[index] = SinDeg(angle)
                    /\ cosTable[index] = CosDeg(angle)

\* A thread has read the last projection of a complete file, taken at the
\* angle of the last table entry, which is the angle of the first one a full
\* turn later: it has index 0.
C29_Witness ==
    \E w \in Workers :
        /\ Holds(w) /\ read[w] /\ pc[w] = "absorb"
        /\ current[w] = N_THETA
        /\ inputFile.records[current[w]].angle = TableAngle(N_THETA - 1) % 360
        /\ projection[w].index = 0

\* The writer has returned true: the whole volume is in the output file.
WriterSucceeded == written.returned /\ written.complete

\* No thread of the team is left inside the parallel region.
TeamLeft == \A t \in WriteTeam : wpc[t] \in {"barrier", "absent"}

\* C30: when the writer succeeds the write phase terminates: a thread leaves
\* the progress loop only after done is true, every thread of the team of
\* two or of one leaves the parallel region, and main() returns 0.
C30_WritePhaseTerminates ==
    /\ [](\A t \in WriteTeam : wpc[t] = "barrier" => done)
    /\ WriterSucceeded ~> (TeamLeft /\ done /\ ExitStatus = "0")

\* main() has returned 0 after a write phase in which the writer succeeded
\* while the other thread of the team turned the loading bar.
C30_Witness ==
    /\ WriterSucceeded /\ TeamLeft /\ ExitStatus = "0"
    /\ \A t \in WriteTeam : wpc[t] = "barrier"
    /\ loadingBarIndex # 0
====
